---- MODULE Spec2Model ----
(***************************************************************************)
(* A model of the branching-novel core: the story parser and serializer    *)
(* (story_parser.py), the playback engine, condition evaluator and text    *)
(* interpolator (branching_novel_app.py) and the editor's model operations *)
(* (branching_novel_editor.py).                                            *)
(*                                                                         *)
(* Text.  A Python str is a sequence of atoms.  An atom is a TLA+ string   *)
(* standing for a run of characters that no operation of the code cuts in  *)
(* two: a word ("a", "set", "10"), a directive prefix ("@title:"), an      *)
(* operator ("+=", "->") or a single character (" ", "#", ":", "_").  The  *)
(* empty str is <<>>.  The inputs of every specification are built from    *)
(* pools of such atoms in which two adjacent atoms never spell a third.    *)
(***************************************************************************)
EXTENDS Integers, Sequences, FiniteSets, TLC

\* ------------------------------------------------------------------------
\* Python str operations on atom sequences
\* ------------------------------------------------------------------------

NL == "\n"
BOM == "<BOM>"

\* Optional[str] = None
None == <<"<None>">>

IsWs(a) == a \in {" ", "\t", "\n"}

SetMin(S) == CHOOSE x \in S : \A y \in S : x <= y

RECURSIVE LStrip(_)
LStrip(s) == IF s # <<>> /\ IsWs(Head(s)) THEN LStrip(Tail(s)) ELSE s

RECURSIVE RStrip(_)
RStrip(s) == IF s # <<>> /\ IsWs(s[Len(s)]) THEN RStrip(SubSeq(s, 1, Len(s) - 1)) ELSE s

Strip(s) == RStrip(LStrip(s))

\* s.lstrip(ch)
RECURSIVE LStripChar(_, _)
LStripChar(s, ch) == IF s # <<>> /\ Head(s) = ch THEN LStripChar(Tail(s), ch) ELSE s

StartsWith(s, p) == Len(s) >= Len(p) /\ SubSeq(s, 1, Len(p)) = p

EndsWith(s, p) == Len(s) >= Len(p) /\ SubSeq(s, Len(s) - Len(p) + 1, Len(s)) = p

\* s.find(p, i) with 1-based positions; 0 when p does not occur at or after i
Find(s, p, i) ==
    LET C == {j \in i..(Len(s) - Len(p) + 1) : SubSeq(s, j, j + Len(p) - 1) = p}
    IN  IF C = {} THEN 0 ELSE SetMin(C)

Contains(s, a) == \E i \in 1..Len(s) : s[i] = a

\* s[i:] for a 1-based first position i
From(s, i) == SubSeq(s, i, Len(s))

\* text.splitlines()
RECURSIVE SplitLines(_)
SplitLines(t) ==
    IF t = <<>> THEN <<>>
    ELSE LET j == Find(t, <<NL>>, 1)
         IN  IF j = 0 THEN <<t>>
             ELSE <<SubSeq(t, 1, j - 1)>> \o SplitLines(From(t, j + 1))

\* sep.join(parts)
RECURSIVE Join(_, _)
Join(parts, sep) ==
    IF parts = <<>> THEN <<>>
    ELSE IF Len(parts) = 1 THEN parts[1]
    ELSE parts[1] \o sep \o Join(Tail(parts), sep)

\* ------------------------------------------------------------------------
\* Values: int, float, bool, str.  A float is the exact fraction n/d in
\* lowest terms (d > 0); an int or bool has d = 1; a str has its atoms in s.
\* ------------------------------------------------------------------------

IntV(n) == [t |-> "int", n |-> n, d |-> 1, s |-> <<>>]
BoolV(b) == [t |-> "bool", n |-> IF b THEN 1 ELSE 0, d |-> 1, s |-> <<>>]
StrV(s) == [t |-> "str", n |-> 0, d |-> 1, s |-> s]
NoneV == [t |-> "none", n |-> 0, d |-> 1, s |-> <<>>]

Abs(n) == IF n < 0 THEN -n ELSE n

RECURSIVE Gcd(_, _)
Gcd(a, b) == IF b = 0 THEN a ELSE Gcd(b, a % b)

FloatV(n, d) ==
    LET g == Gcd(Abs(n), Abs(d))
        sg == IF d < 0 THEN -1 ELSE 1
    IN  [t |-> "float", n |-> (sg * n) \div g, d |-> (sg * d) \div g, s |-> <<>>]

\* Literal atoms of the input pools and the numbers they spell
IntAtoms == {"0", "1", "2", "3", "-1", "10"}
IntOf(a) == CHOOSE n \in -1..10 : ToString(n) = a
FloatAtoms == {"0.5", "2.0"}
FloatOf(a) == IF a = "0.5" THEN FloatV(1, 2) ELSE FloatV(2, 1)

\* Atoms matching ^[A-Za-z_][A-Za-z0-9_]*$
IdentAtoms == {"a", "b", "c", "d", "n", "s", "t", "u", "v", "w", "x", "y", "z",
               "T", "set", "add", "len", "true", "false", "True", "None", "hp", "dead",
               "_x", "x_", "x__y", "a1"}
\* Atoms matching \w+
WordAtoms == IdentAtoms \cup {"0", "1", "2", "3", "10"}

Lower(a) == IF a = "True" THEN "true" ELSE IF a = "T" THEN "t" ELSE a

\* str(v) as used by f-strings and str()
IntStr(n) == <<ToString(n)>>
FloatStr(v) ==
    IF v.d = 1 THEN <<ToString(v.n) \o ".0">>
    ELSE IF v.d = 2 /\ v.n > 0 THEN <<ToString(v.n \div 2) \o ".5">>
    ELSE <<ToString(v.n) \o "/" \o ToString(v.d)>>
PyStr(v) ==
    CASE v.t = "int" -> IntStr(v.n)
      [] v.t = "float" -> FloatStr(v)
      [] v.t = "bool" -> IF v.n = 1 THEN <<"True">> ELSE <<"False">>
      [] v.t = "str" -> v.s
      [] OTHER -> <<"None">>

\* repr(s) of a str
PyRepr(s) ==
    IF Contains(s, "'") /\ ~Contains(s, "\"")
    THEN <<"\"">> \o s \o <<"\"">>
    ELSE <<"'">> \o s \o <<"'">>

\* ------------------------------------------------------------------------
\* Python expressions: tokens and the syntax tree of ast.parse(mode="eval")
\* ------------------------------------------------------------------------

Tok(k, a) == [k |-> k, a |-> a, s |-> <<>>, v |-> NoneV]
StrTok(s) == [k |-> "str", a |-> "'", s |-> s, v |-> StrV(s)]
NumTok(v) == [k |-> "num", a |-> "0", s |-> <<>>, v |-> v]

Keywords == {"and", "or", "not"}
OpChars == {"(", ")", "+", "-", "*", "/", "%", "<", ">", "&", "|", ".", "[", "]", ",",
            "=", "+=", "-=", "*=", "/=", "//=", "%=", "**="}
\* Two adjacent characters that the tokenizer reads as one operator
Merged(a, b) ==
    CASE a = "=" /\ b = "=" -> "=="
      [] a = "!" /\ b = "=" -> "!="
      [] a = ">" /\ b = "=" -> ">="
      [] a = "<" /\ b = "=" -> "<="
      [] a = "/" /\ b = "/" -> "//"
      [] a = "<" /\ b = "<" -> "<<"
      [] a = ">" /\ b = ">" -> ">>"
      [] a = "*" /\ b = "*" -> "**"
      [] a = ":" /\ b = "=" -> ":="
      [] OTHER -> ""

Digits == {"0", "1", "2", "3"}

RECURSIVE Tokenize(_)
Tokenize(s) ==
    IF s = <<>> THEN <<>>
    ELSE LET a == Head(s)
             m == IF Len(s) >= 2 THEN Merged(a, s[2]) ELSE ""
         IN  CASE IsWs(a) -> Tokenize(Tail(s))
               [] a = "#" -> <<>>
               [] a \in {"'", "\""} ->
                    LET j == Find(s, <<a>>, 2)
                    IN  IF j = 0 THEN <<Tok("bad", a)>>
                        ELSE <<StrTok(SubSeq(s, 2, j - 1))>> \o Tokenize(From(s, j + 1))
               [] m # "" -> <<Tok("op", m)>> \o Tokenize(From(s, 3))
               [] a = "-1" -> <<Tok("op", "-"), NumTok(IntV(1))>> \o Tokenize(Tail(s))
               [] a \in Digits /\ Len(s) >= 2 /\ s[2] = "." ->
                    \* a float literal "1." or "1.2"; "1.x" is no token
                    IF Len(s) >= 3 /\ s[3] \in Digits
                    THEN <<NumTok(FloatV(10 * IntOf(a) + IntOf(s[3]), 10))>> \o Tokenize(From(s, 4))
                    ELSE IF Len(s) >= 3 /\ s[3] \in WordAtoms \cup FloatAtoms
                    THEN <<Tok("bad", a)>>
                    ELSE <<NumTok(FloatV(IntOf(a), 1))>> \o Tokenize(From(s, 3))
               [] a = "." /\ Len(s) >= 2 /\ s[2] \in Digits ->
                    <<NumTok(FloatV(IntOf(s[2]), 10))>> \o Tokenize(From(s, 3))
               [] a \in Digits \cup {"10"} -> <<NumTok(IntV(IntOf(a)))>> \o Tokenize(Tail(s))
               [] a \in FloatAtoms -> <<NumTok(FloatOf(a))>> \o Tokenize(Tail(s))
               [] a \in Keywords -> <<Tok("op", a)>> \o Tokenize(Tail(s))
               [] a = "True" -> <<NumTok(BoolV(TRUE))>> \o Tokenize(Tail(s))
               [] a = "False" -> <<NumTok(BoolV(FALSE))>> \o Tokenize(Tail(s))
               [] a = "None" -> <<NumTok(NoneV)>> \o Tokenize(Tail(s))
               [] a \in IdentAtoms -> <<Tok("name", a)>> \o Tokenize(Tail(s))
               [] a \in OpChars -> <<Tok("op", a)>> \o Tokenize(Tail(s))
               [] OTHER -> <<Tok("bad", a)>> \o Tokenize(Tail(s))

\* Adjacent string literals are one literal
RECURSIVE JoinStrings(_)
JoinStrings(ts) ==
    IF Len(ts) < 2 THEN ts
    ELSE IF ts[1].k = "str" /\ ts[2].k = "str"
    THEN JoinStrings(<<StrTok(ts[1].s \o ts[2].s)>> \o Tail(Tail(ts)))
    ELSE <<Head(ts)>> \o JoinStrings(Tail(ts))

\* Syntax tree nodes (the ast classes the evaluators dispatch on)
Name(id) == [k |-> "Name", id |-> id]
Constant(v) == [k |-> "Constant", value |-> v]
BinOp(op, l, r) == [k |-> "BinOp", op |-> op, left |-> l, right |-> r]
UnaryOp(op, e) == [k |-> "UnaryOp", op |-> op, operand |-> e]
BoolOp(op, vs) == [k |-> "BoolOp", op |-> op, values |-> vs]
Compare(l, ops, cs) == [k |-> "Compare", left |-> l, ops |-> ops, comparators |-> cs]
Call(f, args) == [k |-> "Call", func |-> f, args |-> args]
Attribute(e, attr) == [k |-> "Attribute", value |-> e, attr |-> attr]
Subscript(e, i) == [k |-> "Subscript", value |-> e, slice |-> i]
TupleNode == [k |-> "Tuple"]
NamedExpr(id, e) == [k |-> "NamedExpr", target |-> id, value |-> e]
Assign(id, e) == [k |-> "Assign", target |-> id, value |-> e]
AugAssign(id, op, e) == [k |-> "AugAssign", target |-> id, op |-> op, value |-> e]

PFail == [ok |-> FALSE, node |-> TupleNode, rest |-> <<>>]
POk(node, rest) == [ok |-> TRUE, node |-> node, rest |-> rest]
IsOp(ts, ops) == ts # <<>> /\ ts[1].k = "op" /\ ts[1].a \in ops

CmpOps == {"==", "!=", ">", ">=", "<", "<="}

\* The grammar of Python expressions, one rule per precedence level, from
\* "or" (loosest) to atoms.  A rule takes the tokens ts still to read; a loop
\* rule also takes the left operand l, the operands vs and operators ops read
\* so far.  All rules are arms of one recursive operator.
PArg(ts, l, vs, ops) == [ts |-> ts, l |-> l, vs |-> vs, ops |-> ops]
PIn(ts) == PArg(ts, TupleNode, <<>>, <<>>)

BoolLevels == {"or", "and"}
BinLevels == {"bitor", "bitand", "shift", "arith", "term"}
LevelOps(lv) ==
    CASE lv = "bitor" -> {"|"}
      [] lv = "bitand" -> {"&"}
      [] lv = "shift" -> {"<<", ">>"}
      [] lv = "arith" -> {"+", "-"}
      [] lv = "term" -> {"*", "/", "//", "%"}
      [] OTHER -> {lv}
NextLevel(lv) ==
    CASE lv = "or" -> "and"
      [] lv = "and" -> "not"
      [] lv = "bitor" -> "bitand"
      [] lv = "bitand" -> "shift"
      [] lv = "shift" -> "arith"
      [] lv = "arith" -> "term"
      [] OTHER -> "factor"

RECURSIVE PRule(_, _)
PRule(fn, a) ==
    LET ts == a.ts
        sub == PRule(NextLevel(fn), PIn(ts))
        lv == a.ops[1]
        right == PRule(NextLevel(lv), PIn(Tail(ts)))
        operand == PRule(fn, PIn(Tail(ts)))
        cmp == PRule("bitor", PIn(ts))
        cmpRight == PRule("bitor", PIn(Tail(ts)))
        atom == PRule("atom", PIn(ts))
        trailed == IF atom.ok THEN PRule("trailers", PArg(atom.rest, atom.node, <<>>, <<>>))
                   ELSE PFail
        exponent == PRule("factor", PIn(Tail(trailed.rest)))
        inner == PRule("or", PIn(Tail(ts)))
        args == PRule("args", PIn(Tail(ts)))
        arg == PRule("or", PIn(ts))
        named == PRule("or", PIn(Tail(Tail(Tail(ts)))))
    IN  CASE fn \in BoolLevels ->
                IF ~sub.ok THEN PFail
                ELSE IF IsOp(sub.rest, {fn})
                THEN PRule("boolLoop", PArg(sub.rest, TupleNode, <<sub.node>>, <<fn>>))
                ELSE sub
          [] fn = "boolLoop" ->
                IF IsOp(ts, {lv})
                THEN IF ~right.ok THEN PFail
                     ELSE PRule("boolLoop", PArg(right.rest, TupleNode,
                                                 Append(a.vs, right.node), <<lv>>))
                ELSE POk(BoolOp(lv, a.vs), ts)
          [] fn = "not" ->
                IF IsOp(ts, {"not"})
                THEN IF ~operand.ok THEN PFail
                     ELSE POk(UnaryOp("not", operand.node), operand.rest)
                ELSE IF ~cmp.ok THEN PFail
                ELSE IF IsOp(cmp.rest, CmpOps)
                THEN PRule("cmpLoop", PArg(cmp.rest, cmp.node, <<>>, <<>>))
                ELSE cmp
          [] fn = "cmpLoop" ->
                IF IsOp(ts, CmpOps)
                THEN IF ~cmpRight.ok THEN PFail
                     ELSE PRule("cmpLoop", PArg(cmpRight.rest, a.l, Append(a.vs, cmpRight.node),
                                                Append(a.ops, ts[1].a)))
                ELSE POk(Compare(a.l, a.ops, a.vs), ts)
          [] fn \in BinLevels ->
                IF ~sub.ok THEN PFail
                ELSE PRule("binLoop", PArg(sub.rest, sub.node, <<>>, <<fn>>))
          [] fn = "binLoop" ->
                IF IsOp(ts, LevelOps(lv))
                THEN IF ~right.ok THEN PFail
                     ELSE PRule("binLoop", PArg(right.rest, BinOp(ts[1].a, a.l, right.node),
                                                <<>>, <<lv>>))
                ELSE POk(a.l, ts)
          [] fn = "factor" ->
                IF IsOp(ts, {"+", "-"})
                THEN IF ~operand.ok THEN PFail
                     ELSE POk(UnaryOp(ts[1].a, operand.node), operand.rest)
                ELSE IF ~trailed.ok THEN PFail
                ELSE IF IsOp(trailed.rest, {"**"})
                THEN IF ~exponent.ok THEN PFail
                     ELSE POk(BinOp("**", trailed.node, exponent.node), exponent.rest)
                ELSE trailed
          [] fn = "trailers" ->
                CASE IsOp(ts, {"("}) ->
                        IF IsOp(Tail(ts), {")"})
                        THEN PRule("trailers", PArg(Tail(Tail(ts)), Call(a.l, <<>>), <<>>, <<>>))
                        ELSE IF ~args.ok THEN PFail
                        ELSE PRule("trailers", PArg(args.rest, Call(a.l, args.node), <<>>, <<>>))
                  [] IsOp(ts, {"."}) ->
                        IF Len(ts) >= 2 /\ ts[2].k = "name"
                        THEN PRule("trailers", PArg(Tail(Tail(ts)), Attribute(a.l, ts[2].a),
                                                    <<>>, <<>>))
                        ELSE PFail
                  [] IsOp(ts, {"["}) ->
                        IF inner.ok /\ IsOp(inner.rest, {"]"})
                        THEN PRule("trailers", PArg(Tail(inner.rest), Subscript(a.l, inner.node),
                                                    <<>>, <<>>))
                        ELSE PFail
                  [] OTHER -> POk(a.l, ts)
          [] fn = "args" ->
                \* the arguments of a call up to and including its ")"
                IF ~arg.ok THEN PFail
                ELSE IF IsOp(arg.rest, {")"}) THEN POk(Append(a.vs, arg.node), Tail(arg.rest))
                ELSE IF IsOp(arg.rest, {","})
                THEN PRule("args", PArg(Tail(arg.rest), TupleNode, Append(a.vs, arg.node), <<>>))
                ELSE PFail
          [] fn = "atom" ->
                IF ts = <<>> THEN PFail
                ELSE CASE ts[1].k = "name" -> POk(Name(ts[1].a), Tail(ts))
                       [] ts[1].k \in {"num", "str"} -> POk(Constant(ts[1].v), Tail(ts))
                       [] IsOp(ts, {"("}) ->
                            IF IsOp(Tail(ts), {")"}) THEN POk(TupleNode, Tail(Tail(ts)))
                            ELSE IF Len(ts) >= 3 /\ ts[2].k = "name" /\ IsOp(Tail(Tail(ts)), {":="})
                            THEN IF named.ok /\ IsOp(named.rest, {")"})
                                 THEN POk(NamedExpr(ts[2].a, named.node), Tail(named.rest))
                                 ELSE PFail
                            ELSE IF inner.ok /\ IsOp(inner.rest, {")"})
                            THEN POk(inner.node, Tail(inner.rest))
                            ELSE PFail
                       [] OTHER -> PFail
          [] OTHER -> PFail

\* The operators of augmented assignment statements
AugOps == {"+=", "-=", "*=", "/=", "//=", "%=", "**="}

\* ast.parse(expr) in its default mode "exec", which admits the statements
\* "name = expr" and "name op= expr"
AstParseExec(expr) ==
    LET ts == JoinStrings(Tokenize(expr))
        value == PRule("or", PIn(Tail(Tail(ts))))
        r == PRule("or", PIn(ts))
    IN  IF expr # <<>> /\ IsWs(Head(expr)) THEN PFail
        ELSE IF Len(ts) >= 3 /\ ts[1].k = "name" /\ IsOp(Tail(ts), {"="} \cup AugOps)
        THEN IF ~(value.ok /\ value.rest = <<>>) THEN PFail
             ELSE IF ts[2].a = "=" THEN POk(Assign(ts[1].a, value.node), <<>>)
             ELSE POk(AugAssign(ts[1].a, ts[2].a, value.node), <<>>)
        ELSE IF r.ok /\ r.rest = <<>> THEN r ELSE PFail

\* ast.parse(expr, mode="eval"): ok is FALSE for a SyntaxError
AstParse(expr) ==
    LET r == PRule("or", PIn(JoinStrings(Tokenize(expr))))
    IN  IF expr # <<>> /\ IsWs(Head(expr)) THEN PFail
        ELSE IF r.ok /\ r.rest = <<>> THEN r ELSE PFail

\* ------------------------------------------------------------------------
\* Python arithmetic and comparison.  A result is [exc, v]: exc is "" when
\* the operation returns v, and otherwise the name of the exception raised.
\* ------------------------------------------------------------------------

Ret(v) == [exc |-> "", v |-> v]
Raise(e) == [exc |-> e, v |-> NoneV]

IsNum(v) == v.t \in {"int", "float", "bool"}
IsIntLike(v) == v.t \in {"int", "bool"}
Truthy(v) ==
    CASE IsNum(v) -> v.n # 0
      [] v.t = "str" -> v.s # <<>>
      [] OTHER -> FALSE

\* the number n/d as a float if either operand is one, else as an int
Num(l, r, n, d) == IF l.t = "float" \/ r.t = "float" THEN FloatV(n, d) ELSE IntV(n \div d)

\* floor(n/d) for d # 0
Floor(n, d) == IF d > 0 THEN n \div d ELSE (-n) \div (-d)

RECURSIVE IPow(_, _)
IPow(b, e) == IF e = 0 THEN 1 ELSE b * IPow(b, e - 1)

RECURSIVE Repeat(_, _)
Repeat(s, n) == IF n <= 0 THEN <<>> ELSE s \o Repeat(s, n - 1)

RECURSIVE BitAnd(_, _)
BitAnd(a, b) == IF a = 0 \/ b = 0 THEN 0 ELSE 2 * BitAnd(a \div 2, b \div 2) + (a % 2) * (b % 2)
RECURSIVE BitOr(_, _)
BitOr(a, b) ==
    IF a = 0 THEN b ELSE IF b = 0 THEN a
    ELSE 2 * BitOr(a \div 2, b \div 2) + (IF a % 2 = 1 \/ b % 2 = 1 THEN 1 ELSE 0)

PyPow(l, r) ==
    IF r.d # 1 THEN Raise("Unmodelled")
    ELSE IF r.n >= 0
    THEN Ret(Num(l, r, IPow(l.n, r.n), IPow(l.d, r.n)))
    ELSE IF l.n = 0 THEN Raise("ZeroDivisionError")
    ELSE Ret(FloatV(IPow(l.d, -r.n), IPow(l.n, -r.n)))

\* left <op> right for the binary operators + - * / // % ** & |
PyBinOp(op, l, r) ==
    IF IsNum(l) /\ IsNum(r)
    THEN CASE op = "+" -> Ret(Num(l, r, l.n * r.d + r.n * l.d, l.d * r.d))
           [] op = "-" -> Ret(Num(l, r, l.n * r.d - r.n * l.d, l.d * r.d))
           [] op = "*" -> Ret(Num(l, r, l.n * r.n, l.d * r.d))
           [] op = "/" -> IF r.n = 0 THEN Raise("ZeroDivisionError")
                          ELSE Ret(FloatV(l.n * r.d, l.d * r.n))
           [] op = "//" -> IF r.n = 0 THEN Raise("ZeroDivisionError")
                           ELSE Ret(Num(l, r, Floor(l.n * r.d, l.d * r.n), 1))
           [] op = "%" -> IF r.n = 0 THEN Raise("ZeroDivisionError")
                          ELSE LET q == Floor(l.n * r.d, l.d * r.n)
                               IN  Ret(Num(l, r, l.n * r.d - q * r.n * l.d, l.d * r.d))
           [] op = "**" -> PyPow(l, r)
           [] op \in {"&", "|"} ->
                IF ~(IsIntLike(l) /\ IsIntLike(r)) THEN Raise("TypeError")
                ELSE IF l.n < 0 \/ r.n < 0 THEN Raise("Unmodelled")
                ELSE LET n == IF op = "&" THEN BitAnd(l.n, r.n) ELSE BitOr(l.n, r.n)
                     IN  IF l.t = "bool" /\ r.t = "bool" THEN Ret(BoolV(n = 1)) ELSE Ret(IntV(n))
           [] op \in {"<<", ">>"} ->
                IF ~(IsIntLike(l) /\ IsIntLike(r)) THEN Raise("TypeError")
                ELSE IF r.n < 0 THEN Raise("ValueError")
                ELSE IF op = "<<" THEN Ret(IntV(l.n * IPow(2, r.n)))
                ELSE Ret(IntV(Floor(l.n, IPow(2, r.n))))
           [] OTHER -> Raise("TypeError")
    ELSE CASE op = "+" /\ l.t = "str" /\ r.t = "str" -> Ret(StrV(l.s \o r.s))
           [] op = "*" /\ l.t = "str" /\ IsIntLike(r) -> Ret(StrV(Repeat(l.s, r.n)))
           [] op = "*" /\ IsIntLike(l) /\ r.t = "str" -> Ret(StrV(Repeat(r.s, l.n)))
           [] OTHER -> Raise("TypeError")

PyUnaryOp(op, v) ==
    CASE op = "not" -> Ret(BoolV(~Truthy(v)))
      [] IsNum(v) /\ op = "-" -> Ret(IF v.t = "float" THEN FloatV(-v.n, v.d) ELSE IntV(-v.n))
      [] IsNum(v) /\ op = "+" -> Ret(IF v.t = "float" THEN v ELSE IntV(v.n))
      [] OTHER -> Raise("TypeError")

\* Code-point order of the atoms that occur in str values
AtomOrder == <<"-1", "0", "0.5", "1", "2", "2.0", "3", "None", "T", "True", "_x", "a", "a1",
               "add", "b", "c", "d", "false", "n", "s", "set", "t", "true", "u", "v", "w",
               "x", "x_", "x__y", "y", "z">>
AtomRank(a) == IF \E i \in 1..Len(AtomOrder) : AtomOrder[i] = a
               THEN CHOOSE i \in 1..Len(AtomOrder) : AtomOrder[i] = a ELSE 0

RECURSIVE StrLess(_, _)
StrLess(a, b) ==
    IF b = <<>> THEN FALSE
    ELSE IF a = <<>> THEN TRUE
    ELSE IF Head(a) = Head(b) THEN StrLess(Tail(a), Tail(b))
    ELSE AtomRank(Head(a)) < AtomRank(Head(b))

PyEq(l, r) ==
    CASE IsNum(l) /\ IsNum(r) -> l.n * r.d = r.n * l.d
      [] l.t = "str" /\ r.t = "str" -> l.s = r.s
      [] OTHER -> l.t = r.t /\ l.t = "none"

PyLess(l, r) == IF IsNum(l) THEN l.n * r.d < r.n * l.d ELSE StrLess(l.s, r.s)

\* left <op> right for a comparison operator
PyCompare(op, l, r) ==
    CASE op = "==" -> Ret(BoolV(PyEq(l, r)))
      [] op = "!=" -> Ret(BoolV(~PyEq(l, r)))
      [] ~((IsNum(l) /\ IsNum(r)) \/ (l.t = "str" /\ r.t = "str")) -> Raise("TypeError")
      [] op = "<" -> Ret(BoolV(PyLess(l, r)))
      [] op = ">" -> Ret(BoolV(PyLess(r, l)))
      [] op = "<=" -> Ret(BoolV(~PyLess(r, l)))
      [] OTHER -> Ret(BoolV(~PyLess(l, r)))

\* dict operations on finite maps
EmptyMap == [k \in {} |-> NoneV]
MapGet(m, k, dflt) == IF k \in DOMAIN m THEN m[k] ELSE dflt
MapSet(m, k, v) == [x \in DOMAIN m \cup {k} |-> IF x = k THEN v ELSE m[x]]

\* ------------------------------------------------------------------------
\* BranchingNovelApp._eval_ast: the restricted evaluator of conditions.
\* The Assign / AugAssign / Module / Expr cases are not modelled as nodes:
\* ast.parse(mode="eval") never produces them.
\* ------------------------------------------------------------------------

RECURSIVE EvalAst(_, _), EvalBoolOp(_, _, _), EvalCompare(_, _, _, _)

EvalAst(node, state) ==
    CASE node.k = "BoolOp" -> EvalBoolOp(node.op, node.values, state)
      [] node.k = "UnaryOp" ->
            LET operand == EvalAst(node.operand, state)
            IN  IF operand.exc # "" THEN operand ELSE PyUnaryOp(node.op, operand.v)
      [] node.k = "BinOp" ->
            LET left == EvalAst(node.left, state)
                right == EvalAst(node.right, state)
            IN  IF left.exc # "" THEN left
                ELSE IF right.exc # "" THEN right
                ELSE IF node.op \in {"&", "|", "<<", ">>"} THEN Raise("ValueError")
                ELSE PyBinOp(node.op, left.v, right.v)
      [] node.k = "Compare" ->
            LET left == EvalAst(node.left, state)
            IN  IF left.exc # "" THEN left
                ELSE EvalCompare(left.v, node.ops, node.comparators, state)
      [] node.k = "Name" -> Ret(MapGet(state, <<node.id>>, IntV(0)))
      [] node.k = "Constant" -> Ret(node.value)
      [] OTHER -> Raise("ValueError")

\* and / or evaluating every operand before looking at any
RECURSIVE EvalBoolOpEager(_, _, _)
EvalBoolOpEager(op, values, state) ==
    IF values = <<>> THEN Ret(BoolV(op = "and"))
    ELSE LET v == EvalAst(Head(values), state)
             rest == EvalBoolOpEager(op, Tail(values), state)
         IN  IF v.exc # "" THEN v
             ELSE IF rest.exc # "" THEN rest
             ELSE IF op = "and" THEN Ret(BoolV(Truthy(v.v) /\ Truthy(rest.v)))
             ELSE Ret(BoolV(Truthy(v.v) \/ Truthy(rest.v)))

\* and: the first falsy operand gives False; or: the first truthy one gives True
EvalBoolOp(op, values, state) ==
    IF values = <<>> THEN Ret(BoolV(op = "and"))
    ELSE LET v == EvalAst(Head(values), state)
         IN  IF v.exc # "" THEN v
             ELSE IF op = "and" /\ ~Truthy(v.v) THEN Ret(BoolV(FALSE))
             ELSE IF op = "or" /\ Truthy(v.v) THEN Ret(BoolV(TRUE))
             ELSE EvalBoolOp(op, Tail(values), state)

EvalCompare(left, ops, comparators, state) ==
    IF ops = <<>> THEN Ret(BoolV(TRUE))
    ELSE LET right == EvalAst(Head(comparators), state)
             ok == PyCompare(Head(ops), left, right.v)
         IN  IF right.exc # "" THEN right
             ELSE IF ok.exc # "" THEN ok
             ELSE IF ~Truthy(ok.v) THEN Ret(BoolV(FALSE))
             ELSE EvalCompare(right.v, Tail(ops), Tail(comparators), state)

\* ------------------------------------------------------------------------
\* Python's builtin eval(expr, {}, env) on the same syntax
\* ------------------------------------------------------------------------

\* Names of the input pools that eval finds among Python's builtins
BuiltinNames == {"set", "len"}

RECURSIVE PyEvalNode(_, _), PyEvalBoolOp(_, _, _), PyEvalCompare(_, _, _, _)

PyEvalNode(node, env) ==
    CASE node.k = "BoolOp" -> PyEvalBoolOp(node.op, node.values, env)
      [] node.k = "UnaryOp" ->
            LET operand == PyEvalNode(node.operand, env)
            IN  IF operand.exc # "" THEN operand ELSE PyUnaryOp(node.op, operand.v)
      [] node.k = "BinOp" ->
            LET left == PyEvalNode(node.left, env)
                right == PyEvalNode(node.right, env)
            IN  IF left.exc # "" THEN left
                ELSE IF right.exc # "" THEN right
                ELSE PyBinOp(node.op, left.v, right.v)
      [] node.k = "Compare" ->
            LET left == PyEvalNode(node.left, env)
            IN  IF left.exc # "" THEN left
                ELSE PyEvalCompare(left.v, node.ops, node.comparators, env)
      [] node.k = "Name" ->
            IF <<node.id>> \in DOMAIN env THEN Ret(env[<<node.id>>])
            ELSE IF node.id \in BuiltinNames THEN Raise("Unmodelled")
            ELSE Raise("NameError")
      [] node.k = "Constant" -> Ret(node.value)
      [] node.k = "Call" ->
            LET f == PyEvalNode(node.func, env)
                arg == PyEvalNode(node.args[1], env)
            IN  IF node.func = Name("len") /\ <<"len">> \notin DOMAIN env /\ Len(node.args) = 1
                THEN \* the builtin len
                     IF arg.exc # "" THEN arg
                     ELSE IF arg.v.t = "str" THEN Ret(IntV(Len(arg.v.s)))
                     ELSE Raise("TypeError")
                ELSE IF f.exc # "" THEN f ELSE Raise("TypeError")
      [] node.k = "Attribute" ->
            LET e == PyEvalNode(node.value, env)
            IN  IF e.exc # "" THEN e ELSE Raise("AttributeError")
      [] node.k = "Subscript" ->
            LET e == PyEvalNode(node.value, env)
                i == PyEvalNode(node.slice, env)
                at == IF i.v.n >= 0 THEN i.v.n + 1 ELSE Len(e.v.s) + i.v.n + 1
            IN  IF e.exc # "" THEN e
                ELSE IF i.exc # "" THEN i
                ELSE IF e.v.t # "str" \/ ~IsIntLike(i.v) THEN Raise("TypeError")
                ELSE IF at \in 1..Len(e.v.s) THEN Ret(StrV(<<e.v.s[at]>>))
                ELSE Raise("IndexError")
      [] OTHER -> Raise("Unmodelled")

\* x and y / x or y return one of their operands
PyEvalBoolOp(op, values, env) ==
    LET v == PyEvalNode(Head(values), env)
    IN  IF v.exc # "" \/ Len(values) = 1 THEN v
        ELSE IF op = "and" /\ ~Truthy(v.v) THEN v
        ELSE IF op = "or" /\ Truthy(v.v) THEN v
        ELSE PyEvalBoolOp(op, Tail(values), env)

PyEvalCompare(left, ops, comparators, env) ==
    IF ops = <<>> THEN Ret(BoolV(TRUE))
    ELSE LET right == PyEvalNode(Head(comparators), env)
             ok == PyCompare(Head(ops), left, right.v)
         IN  IF right.exc # "" THEN right
             ELSE IF ok.exc # "" THEN ok
             ELSE IF ~Truthy(ok.v) THEN Ret(BoolV(FALSE))
             ELSE PyEvalCompare(right.v, Tail(ops), Tail(comparators), env)

\* eval(expr, {}, env): leading blanks are dropped before compiling
PyEval(expr, env) ==
    LET tree == AstParse(LStrip(expr))
    IN  IF ~tree.ok THEN Raise("SyntaxError") ELSE PyEvalNode(tree.node, env)

\* ------------------------------------------------------------------------
\* story_parser.py: the document model
\* ------------------------------------------------------------------------

\* Choice, Action, Branch (the line / source provenance fields are left out)
Choice(text, target, cond) == [text |-> text, target_id |-> target, condition |-> cond]
Action(op, var, value) == [op |-> op, var |-> var, value |-> value]
Branch(bid, title, cid) ==
    [branch_id |-> bid, title |-> title, chapter_id |-> cid,
     paragraphs |-> <<>>, choices |-> <<>>, actions |-> <<>>]

\* A dict of objects is the sequence of its (key, object) entries in insertion
\* order.  A Branch object lives in story.heap and is referred to by its
\* position there, since story.branches and a chapter's branches share it.
Entry(key, ref) == [key |-> key, ref |-> ref]
Chapter(cid, title) == [key |-> cid, chapter_id |-> cid, title |-> title, branches |-> <<>>]

Keys(d) == [i \in 1..Len(d) |-> d[i].key]
HasKey(d, k) == \E i \in 1..Len(d) : d[i].key = k
IndexOfKey(d, k) == CHOOSE i \in 1..Len(d) : d[i].key = k

Story ==
    [title |-> <<"Untitled">>, start_id |-> None, ending_text |-> <<"The", " ", "End">>,
     show_disabled |-> FALSE, chapters |-> <<>>, branches |-> <<>>,
     variables |-> EmptyMap, heap |-> <<>>]

\* story.get_branch(bid): the Branch object, or None (ref 0)
GetBranchRef(story, bid) ==
    IF HasKey(story.branches, bid) THEN story.branches[IndexOfKey(story.branches, bid)].ref
    ELSE 0

\* ------------------------------------------------------------------------
\* story_parser.py: StoryParser
\* ------------------------------------------------------------------------

Failed(msg) == [ok |-> FALSE, err |-> msg]

DunderAtoms == {"x__y", "__"}
LeadUnderscoreAtoms == {"_x", "_", "__"}
TrailUnderscoreAtoms == {"x_", "_", "__"}

\* _ensure_valid_var: ok FALSE stands for ParseError("Invalid variable name.")
EnsureValidVar(name0) ==
    LET name == Strip(name0)
    IN  IF name = <<>> \/ (\E i \in 1..Len(name) : name[i] \in DunderAtoms)
           \/ Head(name) \in LeadUnderscoreAtoms \/ name[Len(name)] \in TrailUnderscoreAtoms
        THEN [ok |-> FALSE, name |-> name]
        ELSE [ok |-> TRUE, name |-> name]

\* ast.literal_eval of a token that starts and ends with the same quote
LiteralEval(token) ==
    LET inner == SubSeq(token, 2, Len(token) - 1)
    IN  IF Len(token) < 2 \/ Contains(inner, "'") \/ Contains(inner, "\"") \/ Contains(inner, "\\")
        THEN [ok |-> FALSE, v |-> NoneV]
        ELSE [ok |-> TRUE, v |-> StrV(inner)]

\* _parse_value: ok FALSE stands for ParseError("Invalid value: ...")
ParseValue(token) ==
    LET one == Len(token) = 1
        t == IF one THEN Lower(token[1]) ELSE ""
    IN  CASE t = "true" -> [ok |-> TRUE, v |-> BoolV(TRUE)]
          [] t = "false" -> [ok |-> TRUE, v |-> BoolV(FALSE)]
          [] (StartsWith(token, <<"\"">>) /\ EndsWith(token, <<"\"">>))
             \/ (StartsWith(token, <<"'">>) /\ EndsWith(token, <<"'">>)) -> LiteralEval(token)
          [] one /\ token[1] \in IntAtoms -> [ok |-> TRUE, v |-> IntV(IntOf(token[1]))]
          [] one /\ token[1] \in FloatAtoms -> [ok |-> TRUE, v |-> FloatOf(token[1])]
          [] one /\ token[1] \in IdentAtoms -> [ok |-> TRUE, v |-> StrV(token)]
          [] OTHER -> [ok |-> FALSE, v |-> NoneV]

\* The assignment operators of the action regex and their op_map names
EqAtoms == {"=", "+=", "-=", "*=", "/=", "//=", "%=", "**="}
OpName(sym) ==
    CASE sym = "=" -> "set" [] sym = "+=" -> "add" [] sym = "-=" -> "sub"
      [] sym = "*=" -> "mul" [] sym = "/=" -> "div" [] sym = "//=" -> "floordiv"
      [] sym = "%=" -> "mod" [] OTHER -> "pow"
\* The characters of an assignment operator that precede its "="
BeforeEq(sym) ==
    CASE sym = "=" -> <<>> [] sym = "+=" -> <<"+">> [] sym = "-=" -> <<"-">>
      [] sym = "*=" -> <<"*">> [] sym = "/=" -> <<"/">> [] sym = "//=" -> <<"/", "/">>
      [] sym = "%=" -> <<"%">> [] OTHER -> <<"*", "*">>

\* number of leading atoms that \w+ matches
RECURSIVE WordRun(_)
WordRun(s) == IF s # <<>> /\ Head(s) \in WordAtoms THEN 1 + WordRun(Tail(s)) ELSE 0

ActionOk(op, var, value) == [ok |-> TRUE, err |-> "", action |-> Action(op, var, value)]
ActionFail(msg) == [ok |-> FALSE, err |-> msg, action |-> Action("", <<>>, NoneV)]

\* The legacy forms "!set <var> = <value>" and "!add <var> += <value>"
ParseLegacyAction(op, rest) ==
    LET hit == {i \in 1..Len(rest) : IF op = "set" THEN rest[i] \in EqAtoms ELSE rest[i] = "+="}
        i == SetMin(hit)
        var == EnsureValidVar(SubSeq(rest, 1, i - 1)
                              \o (IF op = "set" THEN BeforeEq(rest[i]) ELSE <<>>))
        val == ParseValue(Strip(From(rest, i + 1)))
    IN  IF hit = {} THEN ActionFail(IF op = "set" THEN "Invalid set syntax." ELSE "Invalid add syntax.")
        ELSE IF ~var.ok THEN ActionFail("Invalid variable name.")
        ELSE IF ~val.ok THEN ActionFail("Invalid value")
        ELSE ActionOk(op, var.name, val.v)

\* _parse_action_line
ParseActionLine(line) ==
    LET content == Strip(Tail(line))
        w == WordRun(content)
        after == LStrip(From(content, w + 1))
        sym == Head(after)
        val == Strip(Tail(after))
        var == EnsureValidVar(SubSeq(content, 1, w))
        parsed == ParseValue(val)
    IN  IF StartsWith(content, <<"set", " ">>) THEN ParseLegacyAction("set", Strip(From(content, 3)))
        ELSE IF StartsWith(content, <<"add", " ">>) THEN ParseLegacyAction("add", Strip(From(content, 3)))
        ELSE IF w = 0 \/ after = <<>> \/ sym \notin EqAtoms \/ val = <<>>
        THEN ActionFail("Unknown action command.")
        ELSE IF ~var.ok THEN ActionFail("Invalid variable name.")
        ELSE IF sym = "="
        THEN IF parsed.ok THEN ActionOk("set", var.name, parsed.v)
             ELSE ActionOk("expr", var.name, StrV(val))
        ELSE IF parsed.ok THEN ActionOk(OpName(sym), var.name, parsed.v)
        ELSE ActionFail("Invalid value")

ChoiceFail(msg) == [ok |-> FALSE, err |-> msg, choice |-> Choice(<<>>, <<>>, None)]

\* _parse_choice_line splitting the body at its last "->" where the code
\* splits at the first
ParseChoiceLineLastArrow(line) ==
    LET body == Strip(From(line, 3))
        arrows == {i \in 1..Len(body) : body[i] = "->"}
        arrow == IF arrows = {} THEN 0 ELSE CHOOSE i \in arrows : \A j \in arrows : j <= i
        left == Strip(SubSeq(body, 1, arrow - 1))
        right == From(body, arrow + 1)
        end == Find(left, <<"]">>, 1)
        bracket == StartsWith(left, <<"[">>)
        condition == IF bracket THEN Strip(SubSeq(left, 2, end - 1)) ELSE None
        text == IF bracket THEN Strip(From(left, end + 1)) ELSE left
        target == Strip(right)
    IN  IF arrow = 0 THEN ChoiceFail("Choice line must contain '->'.")
        ELSE IF bracket /\ end = 0 THEN ChoiceFail("Missing closing ']' in condition.")
        ELSE IF text = <<>> \/ target = <<>> THEN ChoiceFail("Choice text or target is empty.")
        ELSE [ok |-> TRUE, err |-> "", choice |-> Choice(text, target, condition)]

\* _parse_choice_line
ParseChoiceLine(line) ==
    LET body == Strip(From(line, 3))
        arrow == Find(body, <<"->">>, 1)
        left == Strip(SubSeq(body, 1, arrow - 1))
        right == From(body, arrow + 1)
        end == Find(left, <<"]">>, 1)
        bracket == StartsWith(left, <<"[">>)
        condition == IF bracket THEN Strip(SubSeq(left, 2, end - 1)) ELSE None
        text == IF bracket THEN Strip(From(left, end + 1)) ELSE left
        target == Strip(right)
    IN  IF arrow = 0 THEN ChoiceFail("Choice line must contain '->'.")
        ELSE IF bracket /\ end = 0 THEN ChoiceFail("Missing closing ']' in condition.")
        ELSE IF text = <<>> \/ target = <<>> THEN ChoiceFail("Choice text or target is empty.")
        ELSE [ok |-> TRUE, err |-> "", choice |-> Choice(text, target, condition)]

\* _parse_chapter_decl
ParseChapterDecl(line) ==
    LET content == Strip(Tail(line))
        colon == Find(content, <<":">>, 1)
    IN  IF colon # 0
        THEN Chapter(Strip(SubSeq(content, 1, colon - 1)), Strip(From(content, colon + 1)))
        ELSE Chapter(Strip(content), Strip(content))

\* _parse_branch_header
ParseBranchHeader(header_line, chapter_id) ==
    LET content == Strip(LStripChar(header_line, "#"))
        colon == Find(content, <<":">>, 1)
    IN  IF colon # 0
        THEN Branch(Strip(SubSeq(content, 1, colon - 1)), Strip(From(content, colon + 1)), chapter_id)
        ELSE Branch(Strip(content), Strip(content), chapter_id)

\* _merge_paragraph_buffer appending each paragraph as joined, not stripped
RECURSIVE MergeLoopNoStrip(_, _, _)
MergeLoopNoStrip(buffer, current, paragraphs) ==
    IF buffer = <<>>
    THEN IF current # <<>> THEN Append(paragraphs, Join(current, <<NL>>)) ELSE paragraphs
    ELSE IF Strip(Head(buffer)) = <<>>
    THEN IF current # <<>>
         THEN MergeLoopNoStrip(Tail(buffer), <<>>, Append(paragraphs, Join(current, <<NL>>)))
         ELSE MergeLoopNoStrip(Tail(buffer), current, paragraphs)
    ELSE MergeLoopNoStrip(Tail(buffer), Append(current, Head(buffer)), paragraphs)

\* _merge_paragraph_buffer
RECURSIVE MergeLoop(_, _, _)
MergeLoop(buffer, current, paragraphs) ==
    IF buffer = <<>>
    THEN IF current # <<>> THEN Append(paragraphs, Strip(Join(current, <<NL>>))) ELSE paragraphs
    ELSE IF Strip(Head(buffer)) = <<>>
    THEN IF current # <<>>
         THEN MergeLoop(Tail(buffer), <<>>, Append(paragraphs, Strip(Join(current, <<NL>>))))
         ELSE MergeLoop(Tail(buffer), current, paragraphs)
    ELSE MergeLoop(Tail(buffer), Append(current, Head(buffer)), paragraphs)

MergeParagraphBuffer(buffer) == MergeLoop(buffer, <<>>, <<>>)

MetaPrefixes == {"@title:", "@start:", "@ending:", "@show-disabled:"}

\* One iteration of the metadata loop of parse
MetaLine(story, raw) ==
    LET line == Strip(raw)
        val == Strip(Tail(line))
    IN  CASE StartsWith(line, <<";">>) -> story
          [] StartsWith(line, <<"@title:">>) ->
                [story EXCEPT !.title = IF val = <<>> THEN <<"Untitled">> ELSE val]
          [] StartsWith(line, <<"@start:">>) ->
                [story EXCEPT !.start_id = IF val = <<>> THEN None ELSE val]
          [] StartsWith(line, <<"@ending:">>) ->
                [story EXCEPT !.ending_text = IF val = <<>> THEN <<"The", " ", "End">> ELSE val]
          [] StartsWith(line, <<"@show-disabled:">>) ->
                [story EXCEPT !.show_disabled =
                    Len(val) = 1 /\ Lower(val[1]) \in {"true", "1", "yes", "on"}]
          [] OTHER -> story

RECURSIVE MetaPass(_, _)
MetaPass(story, lines) ==
    IF lines = <<>> THEN story ELSE MetaPass(MetaLine(story, Head(lines)), Tail(lines))

\* The state of the main loop: the story so far, current_chapter (its position
\* in story.chapters, 0 for None), current_branch (its heap position, 0 for
\* None), paragraph_buffer, and the message of a raised ParseError ("" if none)
ParseState(story) == [story |-> story, cc |-> 0, cb |-> 0, buf |-> <<>>, err |-> ""]

ParseFail(st, msg) == [st EXCEPT !.err = msg]

\* current_branch.paragraphs.extend(merge(paragraph_buffer)); paragraph_buffer.clear()
FlushBuffer(st) ==
    [st EXCEPT !.story.heap[st.cb].paragraphs = @ \o MergeParagraphBuffer(st.buf),
               !.buf = <<>>]

\* ChapterLine leaving current_branch as it is
ChapterLineKeepsBranch(st, stripped) ==
    LET ch == ParseChapterDecl(stripped)
    IN  IF HasKey(st.story.chapters, ch.chapter_id) THEN ParseFail(st, "Duplicate chapter id")
        ELSE [st EXCEPT !.cc = Len(st.story.chapters) + 1,
                        !.story.chapters = Append(@, ch)]

\* The @chapter case of the main loop
ChapterLine(st, stripped) ==
    LET ch == ParseChapterDecl(stripped)
    IN  IF HasKey(st.story.chapters, ch.chapter_id) THEN ParseFail(st, "Duplicate chapter id")
        ELSE [st EXCEPT !.cb = 0, !.cc = Len(st.story.chapters) + 1,
                        !.story.chapters = Append(@, ch)]

\* BranchLine without the duplicate test of line 206: a later branch takes the
\* id of an earlier one
BranchLineNoDuplicateCheck(st, stripped) ==
    LET st1 == IF st.cb # 0 /\ st.buf # <<>> THEN FlushBuffer(st) ELSE st
        br == ParseBranchHeader(stripped, st.story.chapters[st.cc].chapter_id)
        ref == Len(st.story.heap) + 1
    IN  IF st.cc = 0 THEN ParseFail(st, "Branch defined outside of a chapter.")
        ELSE [st1 EXCEPT !.cb = ref,
                         !.story.heap = Append(@, br),
                         !.story.branches = Append(@, Entry(br.branch_id, ref)),
                         !.story.chapters[st.cc].branches = Append(@, Entry(br.branch_id, ref))]

BranchLine(st, stripped) ==
    LET st1 == IF st.cb # 0 /\ st.buf # <<>> THEN FlushBuffer(st) ELSE st
        br == ParseBranchHeader(stripped, st.story.chapters[st.cc].chapter_id)
        ref == Len(st.story.heap) + 1
    IN  IF st.cc = 0 THEN ParseFail(st, "Branch defined outside of a chapter.")
        ELSE IF HasKey(st.story.branches, br.branch_id) THEN ParseFail(st, "Duplicate branch id")
        ELSE [st1 EXCEPT !.cb = ref,
                         !.story.heap = Append(@, br),
                         !.story.branches = Append(@, Entry(br.branch_id, ref)),
                         !.story.chapters[st.cc].branches = Append(@, Entry(br.branch_id, ref))]

ActionLine(st, stripped) ==
    LET r == ParseActionLine(stripped)
        a == r.action
        ev == PyEval(a.value.s, st.story.variables)
    IN  IF ~r.ok THEN ParseFail(st, r.err)
        ELSE IF st.cb # 0 THEN [st EXCEPT !.story.heap[st.cb].actions = Append(@, a)]
        ELSE IF a.op = "set" THEN [st EXCEPT !.story.variables = MapSet(@, a.var, a.value)]
        ELSE IF a.op = "expr"
        THEN IF ev.exc # "" THEN ParseFail(st, "Invalid expression for initial variable.")
             ELSE [st EXCEPT !.story.variables = MapSet(@, a.var, ev.v)]
        ELSE ParseFail(st, "State change found outside of any branch.")

ChoiceLine(st, stripped) ==
    LET r == ParseChoiceLine(stripped)
    IN  IF st.cb = 0 THEN ParseFail(st, "Choice found outside of any branch.")
        ELSE IF ~r.ok THEN ParseFail(st, r.err)
        ELSE [st EXCEPT !.story.heap[st.cb].choices = Append(@, r.choice)]

\* One iteration of the main loop of parse
MainLine(st, line) ==
    LET stripped == Strip(line)
    IN  CASE StartsWith(stripped, <<";">>) -> st
          [] stripped # <<>> /\ Head(stripped) \in MetaPrefixes -> st
          [] StartsWith(stripped, <<"@chapter">>) -> ChapterLine(st, stripped)
          [] StartsWith(stripped, <<"#">>) -> BranchLine(st, stripped)
          [] stripped = <<>> -> IF st.cb # 0 THEN FlushBuffer(st) ELSE st
          [] StartsWith(stripped, <<"!">>) -> ActionLine(st, stripped)
          [] StartsWith(stripped, <<"*", " ">>) -> ChoiceLine(st, stripped)
          [] st.cb = 0 -> ParseFail(st, "Found narrative text outside of a branch.")
          [] OTHER -> [st EXCEPT !.buf = Append(@, line)]

RECURSIVE MainPass(_, _)
MainPass(st, lines) ==
    IF lines = <<>> \/ st.err # "" THEN st ELSE MainPass(MainLine(st, Head(lines)), Tail(lines))

\* ResolveStart taking the last branch declared where the code takes the first
ResolveStartLast(story) ==
    IF story.start_id # None THEN [ok |-> TRUE, err |-> "", story |-> story]
    ELSE IF story.branches # <<>>
    THEN [ok |-> TRUE, err |-> "", story |->
            [story EXCEPT !.start_id = story.branches[Len(story.branches)].key]]
    ELSE [ok |-> FALSE, err |-> "No branches found in story.", story |-> Story]

\* The end of parse: a start_id that is still None becomes the first key of
\* story.branches; with no branch either, ParseError
ResolveStart(story) ==
    IF story.start_id # None THEN [ok |-> TRUE, err |-> "", story |-> story]
    ELSE IF story.branches # <<>>
    THEN [ok |-> TRUE, err |-> "", story |-> [story EXCEPT !.start_id = story.branches[1].key]]
    ELSE [ok |-> FALSE, err |-> "No branches found in story.", story |-> Story]

\* After the main loop: ParseError if one was raised, else the final flush of
\* paragraph_buffer and the start_id resolution
ParseFinish(st) ==
    IF st.err # "" THEN [ok |-> FALSE, err |-> st.err, story |-> Story]
    ELSE IF st.cb # 0 /\ st.buf # <<>> THEN ResolveStart(FlushBuffer(st).story)
    ELSE ResolveStart(st.story)

\* The two loops of parse over the lines of the text
ParseDocument(lines) == ParseFinish(MainPass(ParseState(MetaPass(Story, lines)), lines))

\* lines = [ln.lstrip("﻿") for ln in text.splitlines()]
StripLines(lines) == [i \in 1..Len(lines) |-> LStripChar(lines[i], BOM)]

\* StoryParser.parse: [ok, err, story]; ok FALSE stands for a raised ParseError
Parse(text) == ParseDocument(StripLines(SplitLines(LStripChar(text, BOM))))

\* ------------------------------------------------------------------------
\* story_parser.py: Story.serialize
\* ------------------------------------------------------------------------

\* sorted(keys): the keys of a map in code-point order
RECURSIVE SortedKeys(_)
SortedKeys(ks) ==
    IF ks = {} THEN <<>>
    ELSE LET k == CHOOSE x \in ks : \A y \in ks : x = y \/ StrLess(x, y)
         IN  <<k>> \o SortedKeys(ks \ {k})

\* the text of a value after "=" in a "!" line
ValueText(v) ==
    CASE v.t = "bool" -> IF v.n = 1 THEN <<"true">> ELSE <<"false">>
      [] v.t = "str" -> PyRepr(v.s)
      [] OTHER -> PyStr(v)

OpSymbol(op) ==
    CASE op = "add" -> "+=" [] op = "sub" -> "-=" [] op = "mul" -> "*=" [] op = "div" -> "/="
      [] op = "floordiv" -> "//=" [] op = "mod" -> "%=" [] op = "pow" -> "**=" [] OTHER -> ""

ActionText(act) ==
    IF act.op = "expr" THEN <<<<"!", " ">> \o act.var \o <<" ", "=", " ">> \o act.value.s>>
    ELSE IF act.op = "set" THEN <<<<"!", " ">> \o act.var \o <<" ", "=", " ">> \o ValueText(act.value)>>
    ELSE IF OpSymbol(act.op) # ""
    THEN <<<<"!", " ">> \o act.var \o <<" ", OpSymbol(act.op), " ">> \o ValueText(act.value)>>
    ELSE <<>>

ChoiceText(c) ==
    IF c.condition # None /\ c.condition # <<>>
    THEN <<"*", " ", "[">> \o c.condition \o <<"]", " ">> \o c.text \o <<" ", "->", " ">> \o c.target_id
    ELSE <<"*", " ">> \o c.text \o <<" ", "->", " ">> \o c.target_id

RECURSIVE Flat(_)
Flat(ss) == IF ss = <<>> THEN <<>> ELSE Head(ss) \o Flat(Tail(ss))

BranchText(br) ==
    <<(IF br.title # <<>> THEN <<"#", " ">> \o br.branch_id \o <<":", " ">> \o br.title
       ELSE <<"#", " ">> \o br.branch_id)>>
    \o Flat([i \in 1..Len(br.paragraphs) |-> <<RStrip(br.paragraphs[i]), <<>>>>])
    \o Flat([i \in 1..Len(br.actions) |-> ActionText(br.actions[i])])
    \o [i \in 1..Len(br.choices) |-> ChoiceText(br.choices[i])]
    \o <<<<>>>>

ChapterText(story, ch) ==
    <<(IF ch.title # <<>> THEN <<"@chapter", " ">> \o ch.chapter_id \o <<":", " ">> \o ch.title
       ELSE <<"@chapter", " ">> \o ch.chapter_id)>>
    \o Flat([i \in 1..Len(ch.branches) |-> BranchText(story.heap[ch.branches[i].ref])])

RECURSIVE DropTrailingBlank(_)
DropTrailingBlank(lines) ==
    IF lines # <<>> /\ lines[Len(lines)] = <<>>
    THEN DropTrailingBlank(SubSeq(lines, 1, Len(lines) - 1)) ELSE lines

SerializeLines(story) ==
    LET names == SortedKeys(DOMAIN story.variables)
    IN  <<RStrip(<<"@title:", " ">> \o story.title)>>
        \o (IF story.start_id # None /\ story.start_id # <<>>
            THEN <<<<"@start:", " ">> \o story.start_id>> ELSE <<>>)
        \o <<<<"@ending:", " ">> \o story.ending_text>>
        \o (IF story.show_disabled THEN <<<<"@show-disabled:", " ", "true">>>> ELSE <<>>)
        \o [i \in 1..Len(names) |->
              <<"!", " ">> \o names[i] \o <<" ", "=", " ">> \o ValueText(story.variables[names[i]])]
        \o <<<<>>>>
        \o Flat([i \in 1..Len(story.chapters) |-> ChapterText(story, story.chapters[i])])

\* Story.serialize
Serialize(story) == Join(DropTrailingBlank(SerializeLines(story)), <<NL>>)

\* ------------------------------------------------------------------------
\* branching_novel_app.py: _to_python_expr and _evaluate_condition
\* ------------------------------------------------------------------------

\* The loop of _to_python_expr without the look-ahead for "=" after "!"
RECURSIVE RewriteOpsNoLookahead(_)
RewriteOpsNoLookahead(s) ==
    IF s = <<>> THEN <<>>
    ELSE CASE Head(s) = "!" -> <<" ", "not", " ">> \o RewriteOpsNoLookahead(Tail(s))
           [] Head(s) = "&" ->
                IF Len(s) >= 2 /\ s[2] = "&"
                THEN <<" ", "and", " ">> \o RewriteOpsNoLookahead(Tail(Tail(s)))
                ELSE <<" ", "and", " ">> \o RewriteOpsNoLookahead(Tail(s))
           [] Head(s) = "|" ->
                IF Len(s) >= 2 /\ s[2] = "|"
                THEN <<" ", "or", " ">> \o RewriteOpsNoLookahead(Tail(Tail(s)))
                ELSE <<" ", "or", " ">> \o RewriteOpsNoLookahead(Tail(s))
           [] OTHER -> <<Head(s)>> \o RewriteOpsNoLookahead(Tail(s))

\* The loop of _to_python_expr over the characters of s
RECURSIVE RewriteOps(_)
RewriteOps(s) ==
    IF s = <<>> THEN <<>>
    ELSE CASE Head(s) = "!" ->
                IF Len(s) >= 2 /\ s[2] = "=" THEN <<"!", "=">> \o RewriteOps(Tail(Tail(s)))
                ELSE <<" ", "not", " ">> \o RewriteOps(Tail(s))
           [] Head(s) = "&" ->
                IF Len(s) >= 2 /\ s[2] = "&" THEN <<" ", "and", " ">> \o RewriteOps(Tail(Tail(s)))
                ELSE <<" ", "and", " ">> \o RewriteOps(Tail(s))
           [] Head(s) = "|" ->
                IF Len(s) >= 2 /\ s[2] = "|" THEN <<" ", "or", " ">> \o RewriteOps(Tail(Tail(s)))
                ELSE <<" ", "or", " ">> \o RewriteOps(Tail(s))
           [] OTHER -> <<Head(s)>> \o RewriteOps(Tail(s))

\* Atoms that begin and end with a character of \w
WordLike == WordAtoms \cup FloatAtoms \cup {"_", "False", "and", "or", "not"}

\* \b on both sides of the atom at position i
WordAt(s, i) ==
    /\ (i = 1 \/ s[i - 1] \notin WordLike \cup {"-1"})
    /\ (i = Len(s) \/ s[i + 1] \notin WordLike)

\* re.sub(r"\btrue\b", "True", ...) and re.sub(r"\bfalse\b", "False", ...),
\* both with re.IGNORECASE
SubTrueFalse(s) ==
    [i \in 1..Len(s) |->
        IF s[i] \in {"true", "True"} /\ WordAt(s, i) THEN "True"
        ELSE IF s[i] \in {"false", "False"} /\ WordAt(s, i) THEN "False"
        ELSE s[i]]

ToPythonExpr(cond) == Strip(SubTrueFalse(RewriteOps(Strip(cond))))

\* bool(result) of the try block, or what the block raised
CondResult(r) == IF r.exc # "" THEN r ELSE Ret(BoolV(Truthy(r.v)))

\* The try block of _evaluate_condition on the parsed expression
EvalParsed(tree, state) ==
    IF ~tree.ok THEN Raise("SyntaxError") ELSE CondResult(EvalAst(tree.node, state))

\* _evaluate_condition without its except clause
ExceptNothing(r) == r

\* except Exception: return False
ExceptFalse(r) == IF r.exc # "" THEN Ret(BoolV(FALSE)) ELSE r

\* _evaluate_condition(cond) with self.state = state: [exc, v]
EvaluateCondition(cond, state) == ExceptFalse(EvalParsed(AstParse(ToPythonExpr(cond)), state))

\* ------------------------------------------------------------------------
\* branching_novel_app.py: BranchingNovelApp._interpolate
\* ------------------------------------------------------------------------

\* Atoms made of the characters [A-Za-z0-9] only
AlnumAtoms == (WordAtoms \ {"_x", "x_", "x__y"}) \cup {"False"}

\* {**a, **b}
Merge(a, b) ==
    [k \in DOMAIN a \cup DOMAIN b |-> IF k \in DOMAIN b THEN b[k] ELSE a[k]]

\* the first position at or after k that holds no [A-Za-z0-9]
RECURSIVE AlnumEnd(_, _)
AlnumEnd(s, k) == IF k <= Len(s) /\ s[k] \in AlnumAtoms THEN AlnumEnd(s, k + 1) ELSE k

\* the repetition (?:_[A-Za-z0-9]+)* read greedily from position e
RECURSIVE NameTail(_, _)
NameTail(s, e) ==
    IF e <= Len(s) /\ s[e] = "_" /\ AlnumEnd(s, e + 1) > e + 1
    THEN NameTail(s, AlnumEnd(s, e + 1)) ELSE e

\* re.match(r"([A-Za-z0-9]+(?:_[A-Za-z0-9]+)*)", s[k:]): the position just
\* after the name, or k when there is no match
NameEnd(s, k) == IF AlnumEnd(s, k) = k THEN k ELSE NameTail(s, AlnumEnd(s, k))

\* ScanToken consuming the closing "__" of an undefined name without writing it
ScanTokenDropsClosing(s, j, e, variables) ==
    IF e = j + 2 THEN [out |-> <<"_">>, i |-> j + 1]
    ELSE IF e + 1 <= Len(s) /\ s[e] = "_" /\ s[e + 1] = "_"
    THEN IF SubSeq(s, j + 2, e - 1) \in DOMAIN variables
         THEN [out |-> PyStr(variables[SubSeq(s, j + 2, e - 1)]), i |-> e + 2]
         ELSE [out |-> SubSeq(s, j, e - 1), i |-> e + 2]
    ELSE [out |-> <<"_">>, i |-> j + 1]

\* ScanToken writing both underscores when no name follows "__"
ScanTokenEmitsBoth(s, j, e, variables) ==
    IF e = j + 2 THEN [out |-> <<"_", "_">>, i |-> j + 2]
    ELSE IF e + 1 <= Len(s) /\ s[e] = "_" /\ s[e + 1] = "_"
    THEN IF SubSeq(s, j + 2, e - 1) \in DOMAIN variables
         THEN [out |-> PyStr(variables[SubSeq(s, j + 2, e - 1)]), i |-> e + 2]
         ELSE [out |-> SubSeq(s, j, e - 1), i |-> e]
    ELSE [out |-> <<"_">>, i |-> j + 1]

\* ScanToken writing the whole token of an undefined name, closing "__" included
ScanTokenKeepsUndefined(s, j, e, variables) ==
    IF e = j + 2 THEN [out |-> <<"_">>, i |-> j + 1]
    ELSE IF e + 1 <= Len(s) /\ s[e] = "_" /\ s[e + 1] = "_"
    THEN IF SubSeq(s, j + 2, e - 1) \in DOMAIN variables
         THEN [out |-> PyStr(variables[SubSeq(s, j + 2, e - 1)]), i |-> e + 2]
         ELSE [out |-> SubSeq(s, j, e + 1), i |-> e + 2]
    ELSE [out |-> <<"_">>, i |-> j + 1]

\* One round of the scanning loop with "__" found at j and the name ending
\* before e: the text appended to out_parts and the next value of i
ScanToken(s, j, e, variables) ==
    IF e = j + 2 THEN [out |-> <<"_">>, i |-> j + 1]
    ELSE IF e + 1 <= Len(s) /\ s[e] = "_" /\ s[e + 1] = "_"
    THEN IF SubSeq(s, j + 2, e - 1) \in DOMAIN variables
         THEN [out |-> PyStr(variables[SubSeq(s, j + 2, e - 1)]), i |-> e + 2]
         ELSE [out |-> SubSeq(s, j, e - 1), i |-> e]
    ELSE [out |-> <<"_">>, i |-> j + 1]

\* The loop "while i < n" from position i (1-based) on
RECURSIVE ScanFrom(_, _, _)
ScanNext(s, j, tok, variables) == tok.out \o ScanFrom(s, tok.i, variables)

ScanAt(s, i, j, variables) ==
    IF j = 0 THEN From(s, i)
    ELSE SubSeq(s, i, j - 1)
         \o ScanNext(s, j, ScanToken(s, j, NameEnd(s, j + 2), variables), variables)

ScanFrom(s, i, variables) ==
    IF i > Len(s) THEN <<>> ELSE ScanAt(s, i, Find(s, <<"_", "_">>, i), variables)

\* _interpolate(text) with self.story.variables and self.state
Interpolate(text, story_variables, state) ==
    IF text = <<>> THEN <<>> ELSE ScanFrom(text, 1, Merge(story_variables, state))

\* ------------------------------------------------------------------------
\* branching_novel_app.py: _compute_state
\* ------------------------------------------------------------------------

\* The result of a replay: the exception that escaped ("" if none) and the state
Replayed(state) == [exc |-> "", state |-> state]
ReplayRaised(e, state) == [exc |-> e, state |-> state]

\* isinstance(v, bool) -> int(v)
BoolToInt(v) == IF v.t = "bool" THEN IntV(v.n) ELSE v

ArithSymbol(op) ==
    CASE op = "add" -> "+" [] op = "sub" -> "-" [] op = "mul" -> "*" [] op = "div" -> "/"
      [] op = "floordiv" -> "//" [] op = "mod" -> "%" [] op = "pow" -> "**" [] OTHER -> ""

\* state[act.var] = r for the result r of an operation that may have raised
StoreResult(state, var, r) ==
    IF r.exc # "" THEN ReplayRaised(r.exc, state) ELSE Replayed(MapSet(state, var, r.v))

\* try: state[var] = eval(expr, {}, dict(state)) except Exception: state[var] = 0
StoreEval(state, var, r) ==
    IF r.exc # "" THEN Replayed(MapSet(state, var, IntV(0))) ELSE Replayed(MapSet(state, var, r.v))

\* One round of the loop with the conversion of booleans applied to set too
ApplyActionSetConverts(state, act) ==
    CASE act.op = "set" -> Replayed(MapSet(state, act.var, BoolToInt(act.value)))
      [] act.op = "expr" ->
            StoreEval(state, act.var, PyEval(ToPythonExpr(PyStr(act.value)), state))
      [] ArithSymbol(act.op) # "" ->
            StoreResult(state, act.var,
                        PyBinOp(ArithSymbol(act.op),
                                BoolToInt(MapGet(state, act.var, IntV(0))),
                                BoolToInt(act.value)))
      [] OTHER -> Replayed(state)

\* One round of the loop "for act in br.actions"
ApplyAction(state, act) ==
    CASE act.op = "set" -> Replayed(MapSet(state, act.var, act.value))
      [] act.op = "expr" ->
            StoreEval(state, act.var, PyEval(ToPythonExpr(PyStr(act.value)), state))
      [] ArithSymbol(act.op) # "" ->
            StoreResult(state, act.var,
                        PyBinOp(ArithSymbol(act.op),
                                BoolToInt(MapGet(state, act.var, IntV(0))),
                                BoolToInt(act.value)))
      [] OTHER -> Replayed(state)

RECURSIVE ApplyActions(_, _)
ApplyActions(res, actions) ==
    IF res.exc # "" \/ actions = <<>> THEN res
    ELSE ApplyActions(ApplyAction(res.state, Head(actions)), Tail(actions))

\* the actions of the branch of a step; none when the branch does not exist
StepActions(story, step) ==
    IF GetBranchRef(story, step.branch_id) = 0 THEN <<>>
    ELSE story.heap[GetBranchRef(story, step.branch_id)].actions

RECURSIVE ReplaySteps(_, _, _)
ReplaySteps(story, res, steps) ==
    IF res.exc # "" \/ steps = <<>> THEN res
    ELSE ReplaySteps(story, ApplyActions(res, StepActions(story, Head(steps))), Tail(steps))

\* history[i] for an i past the end of history
IndexPastEnd(res) == IF res.exc # "" THEN res ELSE ReplayRaised("IndexError", res.state)

\* _compute_state replaying the actions of history[upto_index] only
ComputeStateLastStep(story, history, upto_index) ==
    IF upto_index < Len(history)
    THEN ReplaySteps(story, Replayed(story.variables), <<history[upto_index + 1]>>)
    ELSE IndexPastEnd(ReplaySteps(story, Replayed(story.variables), history))

\* _compute_state(upto_index): history[0..upto_index] replayed on a copy of
\* story.variables
ComputeState(story, history, upto_index) ==
    IF upto_index < Len(history)
    THEN ReplaySteps(story, Replayed(story.variables), SubSeq(history, 1, upto_index + 1))
    ELSE IndexPastEnd(ReplaySteps(story, Replayed(story.variables), history))

\* ------------------------------------------------------------------------
\* branching_novel_app.py: what _eval_ast does to self.state
\* ------------------------------------------------------------------------

\* _eval_ast on a statement node, the Assign and AugAssign cases: what is
\* raised and self.state afterwards.  Every other node is an expression,
\* which holds no statement and leaves self.state alone.
EvalStatement(node, state) ==
    LET val == EvalAst(node.value, state)
        cur == BoolToInt(MapGet(state, <<node.target>>, IntV(0)))
        new == IF node.op \in AugOps
               THEN PyBinOp(ArithSymbol(OpName(node.op)), cur, BoolToInt(val.v))
               ELSE Raise("ValueError")
    IN  CASE node.k = "Assign" -> StoreResult(state, <<node.target>>, val)
          [] node.k = "AugAssign" ->
                IF val.exc # "" THEN ReplayRaised(val.exc, state)
                ELSE StoreResult(state, <<node.target>>, new)
          [] OTHER -> ReplayRaised(EvalAst(node, state).exc, state)

\* self.state after _evaluate_condition(cond)
StateAfterCondition(cond, state) ==
    LET tree == AstParse(ToPythonExpr(cond))
    IN  IF ~tree.ok THEN state ELSE EvalStatement(tree.node, state).state

\* ------------------------------------------------------------------------
\* branching_novel_app.py: BranchingNovelApp, the playback handlers
\* ------------------------------------------------------------------------

\* Step(branch_id=..., chosen_text=None)
Step(branch_id) == [branch_id |-> branch_id, chosen_text |-> None]

\* The choice frame: the ending label, or the choice buttons in display order
NoWidgets == [ending |-> FALSE, buttons |-> <<>>]
EndingLabel == [ending |-> TRUE, buttons |-> <<>>]

\* The fields of the application object as __init__ leaves them before it
\* calls _reset_to_start.  message is the error dialog a handler showed and
\* raised the exception that escaped it; indices keep their Python values.
NewApp(story, show_disabled) ==
    [story |-> story, show_disabled |-> show_disabled, state |-> EmptyMap,
     history |-> <<>>, current_index |-> -1, visited_chapters |-> <<>>,
     chapter_positions |-> <<>>, chapter_page_index |-> -1,
     choice_frame |-> NoWidgets, message |-> "", raised |-> ""]

\* the chapter_id of the branch behind a reference
ChapterIdOf(story, ref) == story.heap[ref].chapter_id

\* _record_visit
RecordVisit(a, chapter_id) ==
    IF chapter_id = <<>> \/ chapter_id = None \/ Contains(a.visited_chapters, chapter_id)
    THEN a
    ELSE [a EXCEPT !.visited_chapters = Append(@, chapter_id)]

\* _append_step leaving chapter_page_index where it was
AppendedStepKeepsPage(a, step, prev, new) ==
    LET idx == Len(a.history)
        positions ==
            IF a.chapter_positions = <<>> THEN <<0>>
            ELSE IF prev # 0 /\ new # 0 /\ ChapterIdOf(a.story, prev) # ChapterIdOf(a.story, new)
            THEN Append(a.chapter_positions, idx)
            ELSE a.chapter_positions
        b == [a EXCEPT !.history = Append(@, step),
                       !.current_index = idx,
                       !.chapter_positions = positions]
    IN  IF new # 0 THEN RecordVisit(b, ChapterIdOf(a.story, new)) ELSE b

\* _append_step appending the index of every step to chapter_positions
AppendedStepEveryIndex(a, step, prev, new) ==
    LET idx == Len(a.history)
        positions ==
            IF a.chapter_positions = <<>> THEN <<0>>
            ELSE Append(a.chapter_positions, idx)
        b == [a EXCEPT !.history = Append(@, step),
                       !.current_index = idx,
                       !.chapter_positions = positions,
                       !.chapter_page_index = Len(positions) - 1]
    IN  IF new # 0 THEN RecordVisit(b, ChapterIdOf(a.story, new)) ELSE b

\* _append_step after its truncation: prev and new are the references of
\* prev_branch and new_branch (0 for None)
AppendedStep(a, step, prev, new) ==
    LET idx == Len(a.history)
        positions ==
            IF a.chapter_positions = <<>> THEN <<0>>
            ELSE IF prev # 0 /\ new # 0 /\ ChapterIdOf(a.story, prev) # ChapterIdOf(a.story, new)
            THEN Append(a.chapter_positions, idx)
            ELSE a.chapter_positions
        b == [a EXCEPT !.history = Append(@, step),
                       !.current_index = idx,
                       !.chapter_positions = positions,
                       !.chapter_page_index = Len(positions) - 1]
    IN  IF new # 0 THEN RecordVisit(b, ChapterIdOf(a.story, new)) ELSE b

\* history[:current_index + 1] when the current step is not the last one
TruncateFuture(a) ==
    IF a.current_index < Len(a.history) - 1
    THEN [a EXCEPT !.history = SubSeq(@, 1, a.current_index + 1)]
    ELSE a

\* _append_step on a history already truncated
AppendToHistory(a, step) ==
    IF a.history # <<>> /\ a.current_index >= Len(a.history)
    THEN [a EXCEPT !.raised = "IndexError"]
    ELSE AppendedStep(a, step,
                      IF a.history # <<>> /\ a.current_index >= 0
                      THEN GetBranchRef(a.story, a.history[a.current_index + 1].branch_id)
                      ELSE 0,
                      GetBranchRef(a.story, step.branch_id))

\* _append_step
AppendStep(a, step, truncate_future) ==
    IF truncate_future THEN AppendToHistory(TruncateFuture(a), step)
    ELSE AppendToHistory(a, step)

\* ok in _render_choices
ChoiceOk(a, choice) ==
    IF choice.condition # None /\ choice.condition # <<>>
    THEN EvaluateCondition(choice.condition, a.state).v.n = 1
    ELSE TRUE

\* display in _render_choices: (choice, disabled) pairs
Display(a, br) ==
    SelectSeq([i \in 1..Len(br.choices) |->
                  [choice |-> br.choices[i], disabled |-> ~ChoiceOk(a, br.choices[i])]],
              LAMBDA e : ~e.disabled \/ a.show_disabled)

\* the choice frame showing the ending text only when nothing is displayed
ChoiceFrameEndingWhenEmpty(display) ==
    IF display = <<>> THEN EndingLabel ELSE [ending |-> FALSE, buttons |-> display]

ChoiceFrame(display) ==
    IF \A i \in 1..Len(display) : display[i].disabled THEN EndingLabel
    ELSE [ending |-> FALSE, buttons |-> display]

\* _render_choices
RenderChoices(a, br) == [a EXCEPT !.choice_frame = ChoiceFrame(Display(a, br))]

\* start and end of a page in _render_page (Python indices into history)
PageStart(a, page_index) == a.chapter_positions[page_index + 1]
PageEnd(a, page_index) ==
    IF page_index + 1 < Len(a.chapter_positions) THEN a.chapter_positions[page_index + 2]
    ELSE Len(a.history)

\* the choices _render_page shows for last_branch (reference, 0 for None)
RenderLast(a, last_branch) ==
    IF last_branch # 0 THEN RenderChoices(a, a.story.heap[last_branch]) ELSE a

\* _render_page, the text widget and the labels left out
RenderPage(a, page_index) ==
    IF a.chapter_positions = <<>> THEN a
    ELSE IF page_index = Len(a.chapter_positions) - 1
    THEN RenderLast(a, GetBranchRef(a.story, a.history[PageEnd(a, page_index)].branch_id))
    ELSE [a EXCEPT !.choice_frame = NoWidgets]

\* _render_current from the assignment to self.state on
Rendered(a, computed) ==
    IF computed.exc # "" THEN [a EXCEPT !.raised = computed.exc]
    ELSE RenderPage([a EXCEPT !.state = computed.state], a.chapter_page_index)

\* _render_current
RenderCurrent(a) ==
    IF a.raised # "" \/ a.history = <<>> THEN a
    ELSE Rendered(a, ComputeState(a.story, a.history, a.current_index))

\* cur.chosen_text = self._interpolate(choice.text)
RecordChosen(a, choice) ==
    IF 0 <= a.current_index /\ a.current_index < Len(a.history)
    THEN [a EXCEPT !.history[a.current_index + 1].chosen_text =
                       Interpolate(choice.text, a.story.variables, a.state)]
    ELSE a

\* a handler starts with no dialog shown and no exception raised
Entered(a) == [a EXCEPT !.message = "", !.raised = ""]

\* _choose recording the chosen text before it looks the target up
ChooseRecordsFirst(a, choice) ==
    IF GetBranchRef(a.story, choice.target_id) = 0
    THEN [RecordChosen(a, choice) EXCEPT !.message = "missing_target"]
    ELSE RenderCurrent(AppendStep(TruncateFuture(RecordChosen(a, choice)),
                                  Step(choice.target_id), FALSE))

\* _choose
ChooseFrom(a, choice) ==
    IF GetBranchRef(a.story, choice.target_id) = 0
    THEN [a EXCEPT !.message = "missing_target"]
    ELSE RenderCurrent(AppendStep(TruncateFuture(RecordChosen(a, choice)),
                                  Step(choice.target_id), FALSE))

\* the fields _reset_to_start clears
Cleared(a) ==
    [a EXCEPT !.history = <<>>, !.current_index = -1, !.visited_chapters = <<>>,
              !.chapter_positions = <<>>, !.chapter_page_index = -1]

\* _reset_to_start on the cleared fields
StartFrom(a) ==
    IF a.story.start_id = None \/ a.story.start_id = <<>>
       \/ GetBranchRef(a.story, a.story.start_id) = 0
    THEN [a EXCEPT !.message = "invalid_start"]
    ELSE RenderCurrent(AppendStep(a, Step(a.story.start_id), FALSE))

\* _reset_to_start
ResetToStartFrom(a) == StartFrom(Cleared(Entered(a)))

\* _go_prev_chapter and _go_next_chapter once their condition holds
GoToPage(a, page_index) == RenderPage([a EXCEPT !.chapter_page_index = page_index], page_index)

\* ------------------------------------------------------------------------
\* branching_novel_app.py: _save_progress, _load_progress
\* ------------------------------------------------------------------------

\* step.__dict__ as json.dump writes it and json.load reads it: a str stays a
\* str and None, written as null, is read as None
StepDict(step) == [branch_id |-> step.branch_id, chosen_text |-> step.chosen_text]

\* data in _save_progress; json keeps the int, float, bool and str values of
\* the state apart
ProgressData(a) ==
    [history |-> [i \in 1..Len(a.history) |-> StepDict(a.history[i])],
     current_index |-> a.current_index,
     state |-> a.state]

\* Step(branch_id=h.get("branch_id", ""), chosen_text=h.get("chosen_text"))
LoadedStep(h) == [branch_id |-> h.branch_id, chosen_text |-> h.chosen_text]

\* The loop that rebuilds the chapter visit data, from step idx (0-based) on
RECURSIVE RebuildVisits(_, _)
RebuildVisits(a, idx) ==
    IF idx >= Len(a.history) THEN a
    ELSE LET br == GetBranchRef(a.story, a.history[idx + 1].branch_id)
         IN  IF br = 0 THEN RebuildVisits(a, idx + 1)
             ELSE IF a.visited_chapters = <<>>
                     \/ a.visited_chapters[Len(a.visited_chapters)] # ChapterIdOf(a.story, br)
             THEN RebuildVisits([a EXCEPT !.visited_chapters = Append(@, ChapterIdOf(a.story, br)),
                                          !.chapter_positions = Append(@, idx)],
                                idx + 1)
             ELSE RebuildVisits(a, idx + 1)

\* The loop that sets chapter_page_index, from position i (0-based) on
RECURSIVE PageIndexFrom(_, _, _, _)
PageIndexFrom(positions, current_index, i, page) ==
    IF i >= Len(positions) THEN page
    ELSE IF positions[i + 1] <= current_index
    THEN PageIndexFrom(positions, current_index, i + 1, i)
    ELSE page

\* _load_progress with a file chosen whose content is data
LoadProgressFrom(a, data) ==
    LET b == RebuildVisits(
                 [a EXCEPT !.history = [i \in 1..Len(data.history) |-> LoadedStep(data.history[i])],
                           !.current_index = data.current_index,
                           !.state = data.state,
                           !.visited_chapters = <<>>,
                           !.chapter_positions = <<>>], 0)
    IN  RenderCurrent([b EXCEPT !.chapter_page_index =
                                    PageIndexFrom(b.chapter_positions, b.current_index, 0, 0)])

\* ------------------------------------------------------------------------
\* branching_novel_editor.py: StoryParser, the editor's own copy of the parser
\* ------------------------------------------------------------------------

\* _parse_value of the editor: booleans and numbers only
EditorParseValue(token) ==
    LET one == Len(token) = 1
        t == IF one THEN Lower(token[1]) ELSE ""
    IN  CASE t = "true" -> [ok |-> TRUE, v |-> BoolV(TRUE)]
          [] t = "false" -> [ok |-> TRUE, v |-> BoolV(FALSE)]
          [] one /\ token[1] \in IntAtoms -> [ok |-> TRUE, v |-> IntV(IntOf(token[1]))]
          [] one /\ token[1] \in FloatAtoms -> [ok |-> TRUE, v |-> FloatOf(token[1])]
          [] OTHER -> [ok |-> FALSE, v |-> NoneV]

\* The legacy forms of the editor: the variable name is only stripped
EditorParseLegacyAction(op, rest) ==
    LET hit == {i \in 1..Len(rest) : IF op = "set" THEN rest[i] \in EqAtoms ELSE rest[i] = "+="}
        i == SetMin(hit)
        var == Strip(SubSeq(rest, 1, i - 1) \o (IF op = "set" THEN BeforeEq(rest[i]) ELSE <<>>))
        val == EditorParseValue(Strip(From(rest, i + 1)))
    IN  IF hit = {} THEN ActionFail(IF op = "set" THEN "Invalid set syntax." ELSE "Invalid add syntax.")
        ELSE IF ~val.ok THEN ActionFail("Invalid value")
        ELSE ActionOk(op, var, val.v)

\* _parse_action_line of the editor
EditorParseActionLine(line) ==
    LET content == Strip(Tail(line))
        w == WordRun(content)
        after == LStrip(From(content, w + 1))
        sym == Head(after)
        val == Strip(Tail(after))
        parsed == EditorParseValue(val)
    IN  IF StartsWith(content, <<"set", " ">>)
        THEN EditorParseLegacyAction("set", Strip(From(content, 3)))
        ELSE IF StartsWith(content, <<"add", " ">>)
        THEN EditorParseLegacyAction("add", Strip(From(content, 3)))
        ELSE IF w = 0 \/ after = <<>> \/ sym \notin EqAtoms \/ val = <<>>
        THEN ActionFail("Unknown action command.")
        ELSE IF parsed.ok THEN ActionOk(OpName(sym), SubSeq(content, 1, w), parsed.v)
        ELSE ActionFail("Invalid value")

EditorActionLine(st, stripped) ==
    LET r == EditorParseActionLine(stripped)
    IN  IF ~r.ok THEN ParseFail(st, r.err)
        ELSE IF st.cb # 0 THEN [st EXCEPT !.story.heap[st.cb].actions = Append(@, r.action)]
        ELSE IF r.action.op # "set" THEN ParseFail(st, "State change found outside of any branch.")
        ELSE [st EXCEPT !.story.variables = MapSet(@, r.action.var, r.action.value)]

\* One iteration of the main loop of the editor's parse
EditorMainLine(st, line) ==
    LET stripped == Strip(line)
    IN  CASE stripped # <<>> /\ Head(stripped) \in MetaPrefixes -> st
          [] StartsWith(stripped, <<"@chapter">>) -> ChapterLine(st, stripped)
          [] StartsWith(stripped, <<"#">>) -> BranchLine(st, stripped)
          [] stripped = <<>> -> IF st.cb # 0 THEN FlushBuffer(st) ELSE st
          [] StartsWith(stripped, <<"!">>) -> EditorActionLine(st, stripped)
          [] StartsWith(stripped, <<"*", " ">>) -> ChoiceLine(st, stripped)
          [] st.cb = 0 -> ParseFail(st, "Found narrative text outside of a branch.")
          [] OTHER -> [st EXCEPT !.buf = Append(@, line)]

RECURSIVE EditorMainPass(_, _)
EditorMainPass(st, lines) ==
    IF lines = <<>> \/ st.err # "" THEN st
    ELSE EditorMainPass(EditorMainLine(st, Head(lines)), Tail(lines))

EditorParseDocument(lines) ==
    ParseFinish(EditorMainPass(ParseState(MetaPass(Story, lines)), lines))

\* StoryParser.parse of the editor
EditorParse(text) == EditorParseDocument(StripLines(SplitLines(LStripChar(text, BOM))))

\* ------------------------------------------------------------------------
\* branching_novel_editor.py: Story and ChapterEditor
\* ------------------------------------------------------------------------

\* dict.pop(k, None), next(iter(d.keys()), None), and the swap of two keys of a
\* dict rebuilt in key order
DictPop(d, k) == SelectSeq(d, LAMBDA x : x.key # k)
FirstKey(d) == IF d = <<>> THEN None ELSE d[1].key
SwapEntries(d, i, j) == [d EXCEPT ![i] = d[j], ![j] = d[i]]

\* d[k] = object: in place when k is a key of d already, else at the end
DictSet(d, k, ref) ==
    IF HasKey(d, k) THEN [d EXCEPT ![IndexOfKey(d, k)].ref = ref] ELSE Append(d, Entry(k, ref))

\* "if not x" for an Optional[str]
Falsy(x) == x = None \/ x = <<>>

\* ensure_unique_chapter_id / ensure_unique_branch_id: base, base1, base2, ...
EnsureUniqueId(d, base) ==
    IF ~HasKey(d, <<base>>) THEN <<base>>
    ELSE <<base, ToString(SetMin({i \in 1..(Len(d) + 1) : ~HasKey(d, <<base, ToString(i)>>)}))>>

\* the Chapter under a key and the Branch object under a key
ChapterAt(story, cid) == story.chapters[IndexOfKey(story.chapters, cid)]
BranchAt(story, bid) == story.heap[GetBranchRef(story, bid)]

\* The editor object: the story, the selection, the paragraphs the body
\* widget holds, the dirty flag, the dialog a handler showed and the
\* exception that escaped it
Editor(story, cid, bid) ==
    [story |-> story, current_chapter_id |-> cid, current_branch_id |-> bid,
     txt_body |-> <<>>, dirty |-> FALSE, message |-> "", raised |-> ""]

EditorEntered(e) == [e EXCEPT !.message = "", !.raised = ""]
EditorRaise(e, exc) == [e EXCEPT !.raised = exc]
SetDirty(e, val) == IF e.raised # "" THEN e ELSE [e EXCEPT !.dirty = val]

\* _apply_body_to_model: the body widget holds "\n\n".join(paragraphs), and
\* splitting that at "\n\n" gives the paragraphs back
ApplyBodyToModel(e) ==
    IF e.raised # "" \/ e.current_branch_id = None THEN e
    ELSE IF ~HasKey(e.story.branches, e.current_branch_id) THEN EditorRaise(e, "KeyError")
    ELSE [e EXCEPT !.story.heap[GetBranchRef(e.story, e.current_branch_id)].paragraphs =
                       e.txt_body]

\* _update_preview with the preview not modified by hand
UpdatePreview(e) == ApplyBodyToModel(e)

\* _refresh_meta_panel: a start_id that is no key of story.branches becomes the
\* first key
RefreshMetaPanel(e) ==
    IF e.raised # "" \/ HasKey(e.story.branches, e.story.start_id) \/ e.story.branches = <<>>
    THEN e
    ELSE [e EXCEPT !.story.start_id = e.story.branches[1].key]

\* _refresh_branch_list: only its lookup of the current chapter can fail
RefreshBranchList(e) ==
    IF e.raised # "" \/ e.current_chapter_id = None THEN e
    ELSE IF ~HasKey(e.story.chapters, e.current_chapter_id) THEN EditorRaise(e, "KeyError")
    ELSE e

\* _refresh_chapter_list
RefreshChapterList(e) == RefreshMetaPanel(RefreshBranchList(e))

\* _load_branch_to_form from the lookup of the branch on
LoadedBranch(e) ==
    IF ~HasKey(e.story.branches, e.current_branch_id) THEN EditorRaise(e, "KeyError")
    ELSE UpdatePreview(RefreshMetaPanel(
             [e EXCEPT !.txt_body = BranchAt(e.story, e.current_branch_id).paragraphs]))

\* _load_branch_to_form
LoadBranchToForm(e, bid) ==
    IF e.raised # "" THEN e ELSE LoadedBranch([e EXCEPT !.current_branch_id = bid])

\* _load_chapter_to_form from the lookup of the chapter on
LoadedChapter(e) ==
    IF ~HasKey(e.story.chapters, e.current_chapter_id) THEN EditorRaise(e, "KeyError")
    ELSE IF Falsy(FirstKey(ChapterAt(e.story, e.current_chapter_id).branches)) THEN e
    ELSE LoadBranchToForm(e, FirstKey(ChapterAt(e.story, e.current_chapter_id).branches))

\* _load_chapter_to_form
LoadChapterToForm(e, cid) ==
    IF e.raised # "" THEN e ELSE LoadedChapter([e EXCEPT !.current_chapter_id = cid])

\* A story with one more Branch object, entered in story.branches and in the
\* branch map of the chapter at position c
WithBranch(story, c, br) ==
    [story EXCEPT !.heap = Append(@, br),
                  !.branches = DictSet(@, br.branch_id, Len(story.heap) + 1),
                  !.chapters[c].branches = DictSet(@, br.branch_id, Len(story.heap) + 1)]

WithChapter(story, ch) == [story EXCEPT !.chapters = Append(@, ch)]

\* Story() with a first chapter and a first branch, as __init__ and _new_story
\* build it
FirstStory(chapter_title) ==
    [WithBranch(WithChapter(Story, Chapter(<<"chapter">>, chapter_title)), 1,
                Branch(<<"intro">>, <<"Introduction">>, <<"chapter">>))
     EXCEPT !.start_id = <<"intro">>]

\* ChapterEditor.__init__
NewEditor ==
    UpdatePreview(RefreshMetaPanel(LoadChapterToForm(
        RefreshChapterList(Editor(FirstStory(<<"Chapter", " ", "1">>), <<"chapter">>, <<"intro">>)),
        <<"chapter">>)))

\* _new_story once the discarding of changes is confirmed
NewStory(e) ==
    SetDirty(UpdatePreview(RefreshMetaPanel(LoadChapterToForm(
        RefreshChapterList([EditorEntered(e) EXCEPT
            !.story = FirstStory(<<"Introduction">>),
            !.current_chapter_id = <<"chapter">>,
            !.current_branch_id = <<"intro">>]),
        <<"chapter">>))), FALSE)

\* current_chapter_id as _open_file derives it from the start branch
OpenedChapterId(story) ==
    IF ~Falsy(story.start_id) /\ HasKey(story.branches, story.start_id)
    THEN BranchAt(story, story.start_id).chapter_id
    ELSE FirstKey(story.chapters)

OpenedBranchForm(e) ==
    IF e.raised # "" \/ Falsy(e.current_branch_id) THEN e
    ELSE LoadBranchToForm(e, e.current_branch_id)

\* _open_file: the two loads that follow _refresh_chapter_list
OpenedForms(e) ==
    IF Falsy(e.current_chapter_id) THEN e
    ELSE OpenedBranchForm(LoadChapterToForm(e, e.current_chapter_id))

\* _open_file once the discarding of changes is confirmed and a file chosen
OpenFile(e, parsed) ==
    IF ~parsed.ok THEN [EditorEntered(e) EXCEPT !.message = "parse_error"]
    ELSE SetDirty(UpdatePreview(RefreshMetaPanel(OpenedForms(RefreshChapterList(
             [EditorEntered(e) EXCEPT
                 !.story = parsed.story,
                 !.current_branch_id = parsed.story.start_id,
                 !.current_chapter_id = OpenedChapterId(parsed.story)])))), FALSE)

\* _on_select_chapter with the list entry at position idx selected
OnSelectChapter(e, idx) ==
    IF e.current_chapter_id = e.story.chapters[idx].key THEN e
    ELSE LoadChapterToForm(ApplyBodyToModel(e), e.story.chapters[idx].key)

\* _on_select_branch with the list entry at position idx selected
OnSelectBranch(e, idx) ==
    IF e.current_branch_id = ChapterAt(e.story, e.current_chapter_id).branches[idx].key THEN e
    ELSE LoadBranchToForm(ApplyBodyToModel(e),
                          ChapterAt(e.story, e.current_chapter_id).branches[idx].key)

\* the chapter under cur_id popped and entered again under new_id, its
\* branches given the new chapter_id
RenamedChapter(story, cur_id, new_id) ==
    LET ch == ChapterAt(story, cur_id)
        held == {ch.branches[i].ref : i \in 1..Len(ch.branches)}
    IN  [story EXCEPT
            !.chapters = Append(DictPop(story.chapters, cur_id),
                                [ch EXCEPT !.key = new_id, !.chapter_id = new_id]),
            !.heap = [r \in 1..Len(story.heap) |->
                         IF r \in held THEN [story.heap[r] EXCEPT !.chapter_id = new_id]
                         ELSE story.heap[r]]]

\* _apply_chapter_id_title from the assignment of the title on
ChapterTitled(e, new_id, new_title) ==
    IF ~HasKey(e.story.chapters, new_id) THEN EditorRaise(e, "KeyError")
    ELSE UpdatePreview(SetDirty(RefreshChapterList(
             [e EXCEPT !.story.chapters[IndexOfKey(e.story.chapters, new_id)].title = new_title]),
             TRUE))

\* _apply_chapter_id_title with new_id and new_title read from the form
ApplyChapterIdTitle(e, new_id, new_title) ==
    IF e.current_chapter_id = None THEN e
    ELSE IF new_id = <<>> THEN [e EXCEPT !.message = "chapter_id_required"]
    ELSE IF new_id = e.current_chapter_id THEN ChapterTitled(e, new_id, new_title)
    ELSE IF HasKey(e.story.chapters, new_id) THEN [e EXCEPT !.message = "chapter_id_exists"]
    ELSE IF ~HasKey(e.story.chapters, e.current_chapter_id) THEN EditorRaise(e, "KeyError")
    ELSE ChapterTitled([e EXCEPT !.story = RenamedChapter(e.story, e.current_chapter_id, new_id),
                                 !.current_chapter_id = new_id],
                       new_id, new_title)

\* the choices of a branch with target cur_id retargeted to new_id
Retargeted(choices, cur_id, new_id) ==
    [i \in 1..Len(choices) |->
        IF choices[i].target_id = cur_id THEN [choices[i] EXCEPT !.target_id = new_id]
        ELSE choices[i]]

\* story.branches after pop(cur_id) and the entry under new_id
MovedEntry(d, cur_id, new_id) ==
    DictSet(DictPop(d, cur_id), new_id, d[IndexOfKey(d, cur_id)].ref)

\* the branch object ref renamed in story.branches and in the branch map of
\* the chapter at position c
RenamedInMaps(story, c, ref, cur_id, new_id) ==
    [story EXCEPT
        !.heap[ref].branch_id = new_id,
        !.branches = DictSet(DictPop(story.branches, cur_id), new_id, ref),
        !.chapters[c].branches = DictSet(DictPop(story.chapters[c].branches, cur_id),
                                         new_id, ref)]

\* the loop over story.branches.values() and the start_id of _apply_branch_id_title
RetargetedStory(story, cur_id, new_id) ==
    LET live == {story.branches[i].ref : i \in 1..Len(story.branches)}
    IN  [story EXCEPT
            !.heap = [r \in 1..Len(story.heap) |->
                         IF r \in live
                         THEN [story.heap[r] EXCEPT !.choices = Retargeted(@, cur_id, new_id)]
                         ELSE story.heap[r]],
            !.start_id = IF story.start_id = cur_id THEN new_id ELSE story.start_id]

\* _apply_branch_id_title from the assignment of the title on
BranchTitled(e, new_id, new_title) ==
    IF ~HasKey(e.story.branches, new_id) THEN EditorRaise(e, "KeyError")
    ELSE UpdatePreview(SetDirty(RefreshMetaPanel(RefreshBranchList(
             [e EXCEPT !.story.heap[GetBranchRef(e.story, new_id)].title = new_title])),
             TRUE))

\* _apply_branch_id_title: the renaming of the branch object br_obj (ref)
BranchRenamed(e, ref, new_id, new_title) ==
    IF ~HasKey(e.story.chapters, e.story.heap[ref].chapter_id)
    THEN EditorRaise([e EXCEPT !.story.heap[ref].branch_id = new_id,
                               !.story.branches = MovedEntry(@, e.current_branch_id, new_id)],
                     "KeyError")
    ELSE IF ~HasKey(ChapterAt(e.story, e.story.heap[ref].chapter_id).branches, e.current_branch_id)
    THEN EditorRaise([e EXCEPT !.story.heap[ref].branch_id = new_id,
                               !.story.branches = MovedEntry(@, e.current_branch_id, new_id)],
                     "KeyError")
    ELSE BranchTitled(
             [e EXCEPT !.story = RetargetedStory(
                                     RenamedInMaps(e.story,
                                                   IndexOfKey(e.story.chapters,
                                                              e.story.heap[ref].chapter_id),
                                                   ref, e.current_branch_id, new_id),
                                     e.current_branch_id, new_id),
                       !.current_branch_id = new_id],
             new_id, new_title)

\* _apply_branch_id_title with new_id and new_title read from the form
ApplyBranchIdTitle(e, new_id, new_title) ==
    IF e.current_branch_id = None THEN e
    ELSE IF new_id = <<>> THEN [e EXCEPT !.message = "branch_id_required"]
    ELSE IF new_id = e.current_branch_id THEN BranchTitled(e, new_id, new_title)
    ELSE IF HasKey(e.story.branches, new_id) THEN [e EXCEPT !.message = "branch_id_exists"]
    ELSE IF ~HasKey(e.story.branches, e.current_branch_id) THEN EditorRaise(e, "KeyError")
    ELSE BranchRenamed(e, GetBranchRef(e.story, e.current_branch_id), new_id, new_title)

\* _add_chapter after _apply_body_to_model, new_cid and new_bid being the ids
\* ensure_unique_* return
AddedChapter(e, new_cid, new_bid) ==
    IF e.raised # "" THEN e
    ELSE SetDirty(LoadChapterToForm(RefreshChapterList(
             [e EXCEPT !.story = WithBranch(WithChapter(e.story,
                                                        Chapter(new_cid, <<"New", " ", "Chapter">>)),
                                            Len(e.story.chapters) + 1,
                                            Branch(new_bid, <<"New", " ", "Branch">>, new_cid)),
                       !.current_chapter_id = new_cid,
                       !.current_branch_id = new_bid]),
             new_cid), TRUE)

\* new_bid of _add_chapter: the new chapter is in story.chapters when the
\* branch id is chosen, story.branches is as before
AddChapter(e) ==
    AddedChapter(ApplyBodyToModel(e), EnsureUniqueId(e.story.chapters, "chapter"),
                 EnsureUniqueId(e.story.branches, "branch"))

\* story.branches without the keys of a chapter's branch map
WithoutKeys(d, keys) == SelectSeq(d, LAMBDA x : ~Contains(keys, x.key))

\* _delete_current_chapter: the selection after the chapter is gone
NextSelection(e) ==
    LET next_cid == FirstKey(e.story.chapters)
        next_bid == IF Falsy(next_cid) THEN None
                    ELSE FirstKey(ChapterAt(e.story, next_cid).branches)
    IN  [e EXCEPT !.current_chapter_id = next_cid,
                  !.current_branch_id = next_bid,
                  !.story.start_id = IF e.story.start_id = None /\ ~Falsy(next_bid)
                                     THEN next_bid ELSE e.story.start_id]

\* _delete_current_chapter: the refresh and the load that end it
ReloadedAfterDelete(e) ==
    IF e.raised = "" /\ ~Falsy(e.current_chapter_id) /\ ~Falsy(e.current_branch_id)
    THEN LoadChapterToForm(e, e.current_chapter_id)
    ELSE e

\* _delete_current_chapter without the refusal of the last chapter
DeleteCurrentChapterAlways(e) ==
    IF e.current_chapter_id = None THEN e
    ELSE IF ~HasKey(e.story.chapters, e.current_chapter_id) THEN EditorRaise(e, "KeyError")
    ELSE SetDirty(ReloadedAfterDelete(RefreshChapterList(NextSelection(
             [e EXCEPT
                 !.story.branches =
                     WithoutKeys(@, Keys(ChapterAt(e.story, e.current_chapter_id).branches)),
                 !.story.start_id =
                     IF Contains(Keys(ChapterAt(e.story, e.current_chapter_id).branches),
                                 e.story.start_id)
                     THEN None ELSE @,
                 !.story.chapters = DictPop(@, e.current_chapter_id)]))), TRUE)

\* _delete_current_chapter with the deletion confirmed
DeleteCurrentChapter(e) ==
    IF e.current_chapter_id = None THEN e
    ELSE IF Len(e.story.chapters) <= 1 THEN [e EXCEPT !.message = "at_least_one_chapter"]
    ELSE IF ~HasKey(e.story.chapters, e.current_chapter_id) THEN EditorRaise(e, "KeyError")
    ELSE SetDirty(ReloadedAfterDelete(RefreshChapterList(NextSelection(
             [e EXCEPT
                 !.story.branches =
                     WithoutKeys(@, Keys(ChapterAt(e.story, e.current_chapter_id).branches)),
                 !.story.start_id =
                     IF Contains(Keys(ChapterAt(e.story, e.current_chapter_id).branches),
                                 e.story.start_id)
                     THEN None ELSE @,
                 !.story.chapters = DictPop(@, e.current_chapter_id)]))), TRUE)

\* _reorder_chapter(delta)
ReorderChapter(e, delta) ==
    IF e.current_chapter_id = None THEN e
    ELSE IF ~HasKey(e.story.chapters, e.current_chapter_id) THEN EditorRaise(e, "ValueError")
    ELSE IF IndexOfKey(e.story.chapters, e.current_chapter_id) + delta \notin 1..Len(e.story.chapters)
    THEN e
    ELSE SetDirty(RefreshChapterList(
             [e EXCEPT !.story.chapters =
                 SwapEntries(@, IndexOfKey(e.story.chapters, e.current_chapter_id),
                             IndexOfKey(e.story.chapters, e.current_chapter_id) + delta)]), TRUE)

\* _add_branch after _apply_body_to_model
AddedBranch(e, new_id) ==
    IF e.raised # "" THEN e
    ELSE IF ~HasKey(e.story.chapters, e.current_chapter_id)
    THEN EditorRaise([e EXCEPT !.story.heap = Append(@, Branch(new_id, <<"New", " ", "Branch">>,
                                                               e.current_chapter_id)),
                               !.story.branches = DictSet(@, new_id, Len(e.story.heap) + 1)],
                     "KeyError")
    ELSE SetDirty(LoadBranchToForm(RefreshBranchList(
             [e EXCEPT !.story = WithBranch(e.story,
                                            IndexOfKey(e.story.chapters, e.current_chapter_id),
                                            Branch(new_id, <<"New", " ", "Branch">>,
                                                   e.current_chapter_id)),
                       !.current_branch_id = new_id]),
             new_id), TRUE)

\* _add_branch
AddBranch(e) ==
    IF e.current_chapter_id = None THEN e
    ELSE AddedBranch(ApplyBodyToModel(e), EnsureUniqueId(e.story.branches, "branch"))

\* _delete_current_branch from the two pops on: bid is the current branch, c
\* the position of the current chapter
DeletedBranch(e, c, bid) ==
    LET branches == DictPop(e.story.branches, bid)
        held == DictPop(e.story.chapters[c].branches, bid)
    IN  SetDirty(LoadBranchToForm(RefreshBranchList(
            [e EXCEPT !.story.chapters[c].branches = held,
                      !.story.branches = branches,
                      !.story.start_id = IF @ = bid THEN FirstKey(branches) ELSE @,
                      !.current_branch_id = held[1].key]),
            held[1].key), TRUE)

\* _delete_current_branch with the deletion confirmed
DeleteCurrentBranch(e) ==
    IF e.current_branch_id = None \/ e.current_chapter_id = None THEN e
    ELSE IF ~HasKey(e.story.chapters, e.current_chapter_id) THEN EditorRaise(e, "KeyError")
    ELSE IF Len(ChapterAt(e.story, e.current_chapter_id).branches) <= 1
    THEN [e EXCEPT !.message = "at_least_one_branch"]
    ELSE DeletedBranch(e, IndexOfKey(e.story.chapters, e.current_chapter_id),
                       e.current_branch_id)

\* _reorder_branch(delta) on the chapter at position c
ReorderedBranch(e, c, delta) ==
    IF ~HasKey(e.story.chapters[c].branches, e.current_branch_id) THEN EditorRaise(e, "ValueError")
    ELSE IF IndexOfKey(e.story.chapters[c].branches, e.current_branch_id) + delta
            \notin 1..Len(e.story.chapters[c].branches)
    THEN e
    ELSE SetDirty(RefreshBranchList(
             [e EXCEPT !.story.chapters[c].branches =
                 SwapEntries(@, IndexOfKey(e.story.chapters[c].branches, e.current_branch_id),
                             IndexOfKey(e.story.chapters[c].branches, e.current_branch_id)
                             + delta)]), TRUE)

\* _reorder_branch(delta)
ReorderBranch(e, delta) ==
    IF e.current_branch_id = None \/ e.current_chapter_id = None THEN e
    ELSE IF ~HasKey(e.story.chapters, e.current_chapter_id) THEN EditorRaise(e, "KeyError")
    ELSE ReorderedBranch(e, IndexOfKey(e.story.chapters, e.current_chapter_id), delta)

\* ------------------------------------------------------------------------
\* State
\* ------------------------------------------------------------------------

VARIABLES
    pc,          \* where the run of the program under study stands
    text,        \* the source text handed to StoryParser.parse
    parsed,      \* the result of parse(text)
    serialized,  \* the result of parsed.story.serialize()
    reparsed,    \* the result of parse(serialized)
    itext,       \* the text handed to _interpolate
    ienv,        \* story.variables and self.state during _interpolate
    once,        \* _interpolate(itext)
    twice,       \* _interpolate(_interpolate(itext))
    cond,        \* the condition string handed to _evaluate_condition
    cstate,      \* self.state during _evaluate_condition
    result,      \* what _evaluate_condition returned or raised
    app,         \* the fields of the BranchingNovelApp object
    saved,       \* the progress files written: none, or the one chosen in the dialogs
    ed,          \* the fields of the ChapterEditor object
    line,        \* the stripped line handed to _parse_choice_line or _parse_action_line
    lparsed      \* what that method returned or raised

parseVars == <<text, parsed, serialized, reparsed>>
interpVars == <<itext, ienv, once, twice>>
condVars == <<cond, cstate, result>>
playVars == <<app, saved>>
editVars == <<ed>>
lineVars == <<line, lparsed>>

vars == <<pc, parseVars, interpVars, condVars, playVars, editVars, lineVars>>

NoResult == [ok |-> FALSE, err |-> "", story |-> Story]

\* The parts of the state a run does not use stay at these values
IdleParse == text = <<>> /\ parsed = NoResult /\ serialized = <<>> /\ reparsed = NoResult
IdleInterp ==
    /\ itext = <<>>
    /\ ienv = [story_variables |-> EmptyMap, state |-> EmptyMap]
    /\ once = <<>>
    /\ twice = <<>>
IdleCond == cond = <<>> /\ cstate = EmptyMap /\ result = Ret(NoneV)
IdlePlay == app = NewApp(Story, FALSE) /\ saved = <<>>
IdleEdit == ed = Editor(Story, None, None)
IdleLine == line = <<>> /\ lparsed = Failed("")

\* ------------------------------------------------------------------------
\* Parsing and serializing: parse(text), then serialize, then parse again
\* ------------------------------------------------------------------------

MaxLines == 3

\* The lines a source text is drawn from
ParseLines ==
    { <<"@start:", " ", "b">>,
      <<"@chapter", " ", "c">>,
      <<"@chapter", " ", "d", ":">>,
      <<"#", " ", "a">>,
      <<"#", " ", "b", ":", " ", "T">>,
      <<"#", " ", "b", ":", " ", "T", " ", ";", "n">>,
      <<";", " ", "x">>,
      <<"x">>,
      <<>>,
      <<"!", " ", "v", " ", "=", " ", "1">>,
      <<"!", " ", "v", " ", "+=", " ", "1">>,
      <<"!", " ", "w", " ", "=", " ", "v", " ", "+", " ", "1">>,
      <<"*", " ", "t", " ", "->", " ", "a">> }

\* A text opens with one of these line sequences
Preambles ==
    { <<>>,
      << <<"@chapter", " ", "c">>, <<"#", " ", "a">> >>,
      << <<"@chapter", " ", "c">>, <<"#", " ", "a">>, <<"x">>, <<" ", "y", " ">> >> }

LinesUpTo(n) == UNION { [1..k -> ParseLines] : k \in 0..n }

InitParse ==
    /\ \E pre \in Preambles, ls \in LinesUpTo(MaxLines) : text = Join(pre \o ls, <<NL>>)
    /\ pc = "start"
    /\ parsed = NoResult
    /\ serialized = <<>>
    /\ reparsed = NoResult
    /\ IdleInterp
    /\ IdleCond
    /\ IdlePlay
    /\ IdleEdit
    /\ IdleLine

\* StoryParser().parse(text)
ParseText ==
    /\ pc = "start"
    /\ parsed' = Parse(text)
    /\ pc' = IF parsed'.ok THEN "parsed" ELSE "error"
    /\ UNCHANGED <<text, serialized, reparsed, interpVars, condVars, playVars, editVars, lineVars>>

\* story.serialize()
SerializeStory ==
    /\ pc = "parsed"
    /\ serialized' = Serialize(parsed.story)
    /\ pc' = "serialized"
    /\ UNCHANGED <<text, parsed, reparsed, interpVars, condVars, playVars, editVars, lineVars>>

\* StoryParser().parse(story.serialize())
Reparse ==
    /\ pc = "serialized"
    /\ reparsed' = Parse(serialized)
    /\ pc' = "reparsed"
    /\ UNCHANGED <<text, parsed, serialized, interpVars, condVars, playVars, editVars, lineVars>>

NextParse == ParseText \/ SerializeStory \/ Reparse

SpecParse == InitParse /\ [][NextParse]_vars

\* ---- what a text declares, read off its lines ----

\* the lines of the text that the main loop of parse dispatches on
DirectiveLines(t, prefix) ==
    LET lines == SplitLines(t)
    IN  SelectSeq([i \in 1..Len(lines) |-> Strip(lines[i])],
                  LAMBDA l : StartsWith(l, prefix))

DeclaredChapterIds(t) ==
    LET ls == DirectiveLines(t, <<"@chapter">>)
    IN  [i \in 1..Len(ls) |-> ParseChapterDecl(ls[i]).chapter_id]

DeclaredBranchIds(t) ==
    LET ls == DirectiveLines(t, <<"#">>)
    IN  [i \in 1..Len(ls) |-> ParseBranchHeader(ls[i], <<>>).branch_id]

HasDuplicate(ids) == \E i, j \in 1..Len(ids) : i < j /\ ids[i] = ids[j]

\* C1: parsing the serialized form of a story gives a story equal to it
C1_RoundTrip ==
    pc = "reparsed" => (reparsed.ok /\ reparsed.story = parsed.story)

\* C4: after a successful parse, start_id is a key of story.branches
C4_StartIdIsBranch ==
    pc \in {"parsed", "serialized", "reparsed"} =>
        HasKey(parsed.story.branches, parsed.story.start_id)

\* C5: parse raises ParseError for every text that declares the same chapter
\* id twice or the same branch id twice, also across chapters
C5_DuplicateIdRejected ==
    (pc # "start" /\ (HasDuplicate(DeclaredChapterIds(text))
                      \/ HasDuplicate(DeclaredBranchIds(text))))
        => ~parsed.ok

\* a text whose two branches "a" sit in different chapters has been rejected
\* for the duplicate branch id
C5_Witness ==
    /\ pc = "error"
    /\ parsed.err = "Duplicate branch id"
    /\ DeclaredChapterIds(text) = << <<"c">>, <<"d">> >>
    /\ DeclaredBranchIds(text) = << <<"a">>, <<"a">> >>

\* C7: parse raises ParseError when the text declares no branch, whatever
\* metadata it carries
C7_NoBranchRejected ==
    (pc # "start" /\ DeclaredBranchIds(text) = <<>>) => ~parsed.ok

\* C8: with no @start: directive and at least one branch, a successful parse
\* sets start_id to the id of the first branch declared
C8_DefaultStart ==
    (/\ pc # "start"
     /\ parsed.ok
     /\ DirectiveLines(text, <<"@start:">>) = <<>>
     /\ DeclaredBranchIds(text) # <<>>)
        => parsed.story.start_id = DeclaredBranchIds(text)[1]

\* a text with two branches and no @start: has been parsed, and the start is
\* the first of them
C8_Witness ==
    /\ pc = "parsed"
    /\ DirectiveLines(text, <<"@start:">>) = <<>>
    /\ DeclaredBranchIds(text) = << <<"a">>, <<"b">> >>
    /\ parsed.story.start_id = <<"a">>

\* the branches of the parsed story
ParsedBranches == {parsed.story.heap[r] : r \in 1..Len(parsed.story.heap)}

\* the lines of the paragraphs of a branch
ParagraphLines(br) ==
    UNION {{SplitLines(br.paragraphs[i])[j] : j \in 1..Len(SplitLines(br.paragraphs[i]))}
           : i \in 1..Len(br.paragraphs)}

\* C11: comments are stripped during parse: no paragraph of a parsed branch
\* holds a line that starts with ";", and no parsed branch title holds the
\* ";note" written after the title on its header line
C11_CommentsStripped ==
    (pc # "start" /\ parsed.ok) =>
        \A br \in ParsedBranches :
            /\ ~Contains(br.title, ";")
            /\ \A l \in ParagraphLines(br) : ~StartsWith(Strip(l), <<";">>)

\* a line of narrative text: not blank, no comment, directive, header,
\* action or choice
IsNarrative(l) ==
    LET st == Strip(l)
    IN  /\ st # <<>>
        /\ Head(st) \notin {";", "@chapter", "#", "!"} \cup MetaPrefixes
        /\ ~StartsWith(st, <<"*", " ">>)

\* the runs of narrative lines that blank lines separate
RECURSIVE NarrativeRuns(_, _, _)
NarrativeRuns(lines, run, runs) ==
    LET closed == IF run # <<>> THEN Append(runs, run) ELSE runs
    IN  IF lines = <<>> THEN closed
        ELSE IF Strip(Head(lines)) = <<>> THEN NarrativeRuns(Tail(lines), <<>>, closed)
        ELSE IF IsNarrative(Head(lines)) THEN NarrativeRuns(Tail(lines), Append(run, Head(lines)), runs)
        ELSE NarrativeRuns(Tail(lines), run, runs)

\* C17: within one branch, consecutive narrative lines form one paragraph
\* joined by single newlines, a blank or whitespace-only line ends the
\* paragraph, and every stored paragraph is non-empty, has no blank line
\* inside and no leading or trailing whitespace
C17_Paragraphs ==
    (pc # "start" /\ parsed.ok) =>
        /\ \A br \in ParsedBranches :
              /\ \A i \in 1..Len(br.paragraphs) :
                    /\ br.paragraphs[i] # <<>>
                    /\ ~IsWs(br.paragraphs[i][1])
                    /\ ~IsWs(br.paragraphs[i][Len(br.paragraphs[i])])
              /\ \A l \in ParagraphLines(br) : Strip(l) # <<>>
        /\ (Len(DeclaredChapterIds(text)) = 1 /\ Len(DeclaredBranchIds(text)) = 1)
              => LET runs == NarrativeRuns(SplitLines(text), <<>>, <<>>)
                 IN  parsed.story.heap[1].paragraphs =
                         [i \in 1..Len(runs) |-> Strip(Join(runs[i], <<NL>>))]

\* the raw lines "x", " y ", blank, "x" of one branch have been parsed to the
\* paragraphs "x\n y" and "x"
C17_Witness ==
    /\ pc = "parsed"
    /\ Len(DeclaredBranchIds(text)) = 1
    /\ NarrativeRuns(SplitLines(text), <<>>, <<>>)
           = << << <<"x">>, <<" ", "y", " ">> >>, << <<"x">> >> >>
    /\ parsed.story.heap[1].paragraphs = << <<"x", NL, " ", "y">>, <<"x">> >>

\* the stripped lines of a text
Stripped(t) == [i \in 1..Len(SplitLines(t)) |-> Strip(SplitLines(t)[i])]

\* a branch header precedes line i of the text with no @chapter line between
BranchOpenAt(t, i) ==
    \E j \in 1..(i - 1) :
        /\ StartsWith(Stripped(t)[j], <<"#">>)
        /\ \A k \in (j + 1)..(i - 1) : ~StartsWith(Stripped(t)[k], <<"@chapter">>)

HeaderBeforeChapter(t) ==
    \E i \in 1..Len(Stripped(t)) :
        /\ StartsWith(Stripped(t)[i], <<"#">>)
        /\ \A j \in 1..(i - 1) : ~StartsWith(Stripped(t)[j], <<"@chapter">>)

ChoiceOutsideBranch(t) ==
    \E i \in 1..Len(Stripped(t)) :
        StartsWith(Stripped(t)[i], <<"*", " ">>) /\ ~BranchOpenAt(t, i)

NarrativeOutsideBranch(t) ==
    \E i \in 1..Len(Stripped(t)) : IsNarrative(Stripped(t)[i]) /\ ~BranchOpenAt(t, i)

\* C18: parse raises ParseError when a branch header occurs before any
\* @chapter, when a choice line occurs while no branch is open, and when a
\* narrative line occurs while no branch is open, also directly after an
\* @chapter line and before its first branch header
C18_OutsideRejected ==
    (pc # "start" /\ (\/ HeaderBeforeChapter(text)
                      \/ ChoiceOutsideBranch(text)
                      \/ NarrativeOutsideBranch(text)))
        => ~parsed.ok

\* a text whose narrative line follows the @chapter line of a second chapter,
\* after a branch of the first chapter, has been rejected for it
C18_Witness ==
    /\ pc = "error"
    /\ parsed.err = "Found narrative text outside of a branch."
    /\ DeclaredBranchIds(text) = << <<"a">> >>
    /\ Len(DeclaredChapterIds(text)) = 2
    /\ NarrativeOutsideBranch(text)

\* the action lines of a text that are read while no branch is open
OutsideActionLines(t) ==
    {Stripped(t)[i] : i \in {j \in 1..Len(Stripped(t)) :
                                StartsWith(Stripped(t)[j], <<"!">>) /\ ~BranchOpenAt(t, j)}}

\* C26: an action line read while no branch is open is accepted only if it
\* is a plain set, which becomes an entry of story.variables; any other
\* action outside a branch, an expr-kind "=" with a right-hand side that is
\* no literal included, makes parse raise ParseError
C26_OnlySetOutsideBranch ==
    (pc # "start" /\ parsed.ok) =>
        \A l \in OutsideActionLines(text) :
            /\ ParseActionLine(l).ok
            /\ ParseActionLine(l).action.op = "set"
            /\ ParseActionLine(l).action.var \in DOMAIN parsed.story.variables

\* the positions of the branch headers in the lines of a text
HeaderPositions(t) == {i \in 1..Len(Stripped(t)) : StartsWith(Stripped(t)[i], <<"#">>)}

\* the lines from the header at position h up to the next header
LinesOfBranch(t, h) ==
    LET later == {i \in HeaderPositions(t) : i > h}
        last == IF later = {} THEN Len(SplitLines(t)) ELSE SetMin(later) - 1
    IN  SubSeq(SplitLines(t), h + 1, last)

\* the position of the r-th branch header
RECURSIVE NthHeader(_, _)
NthHeader(t, r) ==
    IF r = 1 THEN SetMin(HeaderPositions(t))
    ELSE SetMin({i \in HeaderPositions(t) : i > NthHeader(t, r - 1)})

\* C19: the narrative lines pending when an @chapter line is read are flushed
\* into the branch that was open before it: every narrative line ends up in
\* the paragraphs of the branch whose header most recently precedes it, never
\* in a branch declared later
C19_FlushAtChapter ==
    (pc # "start" /\ parsed.ok) =>
        \A r \in 1..Len(parsed.story.heap) :
            LET runs == NarrativeRuns(LinesOfBranch(text, NthHeader(text, r)), <<>>, <<>>)
            IN  parsed.story.heap[r].paragraphs =
                    [i \in 1..Len(runs) |-> Strip(Join(runs[i], <<NL>>))]

\* ------------------------------------------------------------------------
\* Choice lines and action lines: _parse_choice_line and _parse_action_line
\* on one stripped line
\* ------------------------------------------------------------------------

MaxChoice == 5

\* What follows "* " on a choice line: the line is stripped, so it does not
\* end with a blank
ChoiceAtoms == {"[", "]", "->", " ", "t"}
ChoiceBodies ==
    {b \in UNION {[1..k -> ChoiceAtoms] : k \in 1..MaxChoice} : b[Len(b)] # " "}

ConditionalChoiceLine ==
    <<"*", " ", "[", "hp", " ", ">", " ", "3", "]", " ", "Run", " ", "->", " ", "forest">>
PlainChoiceLine == <<"*", " ", "Run", " ", "->", " ", "forest">>

ChoiceLines ==
    {<<"*", " ">> \o b : b \in ChoiceBodies} \cup {ConditionalChoiceLine, PlainChoiceLine}

\* The parts of an action line "!<var> <op> <value>"
Gaps == {<<>>, <<" ">>}
ActionVars == {<<"v">>, <<"set">>, <<"add">>, <<"x_">>}
LiteralTexts ==
    {<<"1">>, <<"-1">>, <<"0.5">>, <<"true">>, <<"True">>, <<"false">>,
     <<"'", "a", "'">>, <<"\"", "a", " ", "b", "\"">>}
IdentifierTexts == {<<"y">>}
ExpressionTexts == {<<"y", " ", "+", " ", "1">>}
\* a call of a builtin, an indexing, a call of an unset name, an attribute
CallTexts == {<<"len", "(", "'", "a", "b", "'", ")">>, <<"y", "(", "1", ")">>}
IndexTexts == {<<"'", "a", "b", "'", "[", "0", "]">>}
AttributeTexts == {<<"y", ".", "x">>}
UnrestrictedTexts == CallTexts \cup IndexTexts \cup AttributeTexts
ValueTexts == LiteralTexts \cup IdentifierTexts \cup ExpressionTexts \cup UnrestrictedTexts

ActionLineOf(g1, var, g2, sym, g3, value) == <<"!">> \o g1 \o var \o g2 \o <<sym>> \o g3 \o value

ActionLines ==
    {ActionLineOf(g[1], var, g[2], sym, g[3], value) :
        g \in Gaps \X Gaps \X Gaps, var \in ActionVars, sym \in EqAtoms, value \in ValueTexts}

InitLine ==
    /\ pc = "line"
    /\ line \in ChoiceLines \cup ActionLines
    /\ lparsed = Failed("")
    /\ IdleParse
    /\ IdleInterp
    /\ IdleCond
    /\ IdlePlay
    /\ IdleEdit

\* self._parse_choice_line(stripped, ...), called for a line that starts with "* "
ParseChoice ==
    /\ pc = "line"
    /\ StartsWith(line, <<"*", " ">>)
    /\ lparsed' = ParseChoiceLine(line)
    /\ pc' = "choice"
    /\ UNCHANGED <<line, parseVars, interpVars, condVars, playVars, editVars>>

\* self._parse_action_line(stripped, ...), called for a line that starts with "!"
ParseAction ==
    /\ pc = "line"
    /\ StartsWith(line, <<"!">>)
    /\ lparsed' = ParseActionLine(line)
    /\ pc' = "action"
    /\ UNCHANGED <<line, parseVars, interpVars, condVars, playVars, editVars>>

NextLine == ParseChoice \/ ParseAction

SpecLine == InitLine /\ [][NextLine]_vars

\* the first position of the atom a in s, 0 if there is none
FirstOf(s, a) ==
    IF \E i \in 1..Len(s) : s[i] = a THEN SetMin({i \in 1..Len(s) : s[i] = a}) ELSE 0

\* C14: a choice line "* [cond] text -> target" parses to a Choice whose
\* condition is the trimmed text between "[" and the first "]", whose text is
\* the trimmed remainder before the first "->" and whose target_id is the
\* trimmed text after it; without a leading "[" the condition is None; a line
\* with no "->", with "[" but no "]" before the "->", or with empty text or
\* empty target raises ParseError
C14_ChoiceLine ==
    pc = "choice" =>
        LET body == Strip(SubSeq(line, 3, Len(line)))
            arrow == FirstOf(body, "->")
            left == Strip(SubSeq(body, 1, arrow - 1))
            close == FirstOf(left, "]")
            bracket == left # <<>> /\ left[1] = "["
            label == IF bracket THEN Strip(SubSeq(left, close + 1, Len(left))) ELSE left
            target == Strip(SubSeq(body, arrow + 1, Len(body)))
        IN  IF arrow = 0 \/ (bracket /\ close = 0) \/ label = <<>> \/ target = <<>>
            THEN ~lparsed.ok
            ELSE /\ lparsed.ok
                 /\ lparsed.choice.condition =
                        IF bracket THEN Strip(SubSeq(left, 2, close - 1)) ELSE None
                 /\ lparsed.choice.text = label
                 /\ lparsed.choice.target_id = target

\* "* [hp > 3] Run -> forest" has been parsed to the choice Run, to forest,
\* under the condition hp > 3
C14_Witness ==
    /\ pc = "choice"
    /\ line = ConditionalChoiceLine
    /\ lparsed.ok
    /\ lparsed.choice = Choice(<<"Run">>, <<"forest">>, <<"hp", " ", ">", " ", "3">>)

\* the canonical name of an operator, as the specification lists them
CanonicalOp(sym) ==
    CASE sym = "=" -> "set" [] sym = "+=" -> "add" [] sym = "-=" -> "sub"
      [] sym = "*=" -> "mul" [] sym = "/=" -> "div" [] sym = "//=" -> "floordiv"
      [] sym = "%=" -> "mod" [] sym = "**=" -> "pow"

\* the typed value of a literal text
TypedLiteral(value) ==
    CASE value \in {<<"true">>, <<"True">>} -> BoolV(TRUE)
      [] value = <<"false">> -> BoolV(FALSE)
      [] Head(value) \in {"'", "\""} -> StrV(SubSeq(value, 2, Len(value) - 1))
      [] Head(value) \in IntAtoms -> IntV(IntOf(Head(value)))
      [] OTHER -> FloatOf(Head(value))

\* a variable name the identifier rule admits
WellFormedName(var) ==
    /\ Len(var) = 1
    /\ var[1] \in IdentAtoms
    /\ var[1] \notin DunderAtoms \cup LeadUnderscoreAtoms \cup TrailUnderscoreAtoms

\* C15: an action line "!<var> <op> <literal>" parses to an Action whose op is
\* the canonical name of the operator and whose value is the typed literal:
\* true/false in any case a boolean, a quoted string its string, otherwise an
\* integer if possible, else a float
C15_ActionLine ==
    pc = "action" =>
        \A g \in Gaps \X Gaps \X Gaps, var \in ActionVars, sym \in EqAtoms,
           value \in LiteralTexts :
            (line = ActionLineOf(g[1], var, g[2], sym, g[3], value) /\ WellFormedName(var))
            => /\ lparsed.ok
               /\ lparsed.action.op = CanonicalOp(sym)
               /\ lparsed.action.var = var
               /\ lparsed.action.value = TypedLiteral(value)

\* C25: an action line whose operator is not "=" and whose right-hand side is
\* not a literal, a bare identifier as in "!a += b" included, is rejected
C25_NonLiteralRejected ==
    pc = "action" =>
        \A g \in Gaps \X Gaps \X Gaps, sym \in EqAtoms \ {"="},
           value \in IdentifierTexts \cup ExpressionTexts :
            line = ActionLineOf(g[1], <<"v">>, g[2], sym, g[3], value) => ~lparsed.ok

\* C27: a bare variable name that is not set reads as 0 when an expression
\* is evaluated as the right-hand side of an expr-kind action: with y unset,
\* the action "!v = y + 1" leaves v equal to 1
C27_UnsetReadsZero ==
    pc = "action" =>
        \A g \in Gaps \X Gaps \X Gaps, value \in ExpressionTexts :
            line = ActionLineOf(g[1], <<"v">>, g[2], "=", g[3], value)
            => /\ lparsed.ok
               /\ lparsed.action.op = "expr"
               /\ ApplyAction(EmptyMap, lparsed.action).exc = ""
               /\ MapGet(ApplyAction(EmptyMap, lparsed.action).state, <<"v">>, NoneV) = IntV(1)

\* C30: an expression that holds a function call, an attribute access or an
\* indexing is never executed: as a choice condition it yields false, as an
\* expr-kind action it yields the failure default at playback (0) and as an
\* initial variable at parse time (ParseError)
C30_RestrictedGrammar ==
    pc = "action" =>
        \A g \in Gaps \X Gaps \X Gaps, value \in UnrestrictedTexts :
            line = ActionLineOf(g[1], <<"v">>, g[2], "=", g[3], value)
            => /\ lparsed.ok
               /\ lparsed.action.op = "expr"
               /\ EvaluateCondition(value, EmptyMap) = Ret(BoolV(FALSE))
               /\ ApplyAction(EmptyMap, lparsed.action) = Replayed(<<"v">> :> IntV(0))
               /\ ActionLine(ParseState(Story), line).err # ""

\* C20: an action line "!x = y" whose right-hand side is a bare identifier y
\* parses to an Action with op expr that carries y unevaluated, not to a set
\* action holding the string y, so that replaying it gives x the current
\* value of the variable y
C20_IdentifierIsExpression ==
    pc = "action" =>
        \A g \in Gaps \X Gaps \X Gaps, value \in IdentifierTexts :
            line = ActionLineOf(g[1], <<"v">>, g[2], "=", g[3], value)
            => /\ lparsed.ok
               /\ lparsed.action.op = "expr"
               /\ lparsed.action.value = StrV(value)
               /\ MapGet(ApplyAction(MapSet(EmptyMap, value, IntV(1)), lparsed.action).state,
                         <<"v">>, NoneV) = IntV(1)

\* ------------------------------------------------------------------------
\* Interpolation: _interpolate(text), then _interpolate of its output
\* ------------------------------------------------------------------------

MaxText == 6

\* The characters a displayed text is made of
InterpAtoms == {"_", "x", "y", "."}

TextsUpTo(n) == UNION { [1..k -> InterpAtoms] : k \in 0..n }

\* Two names sharing the "__" between them, alone or between dots
ChainedNames == {<<"x">>, <<"y">>}
Chained(a, b) == <<"_", "_">> \o a \o <<"_", "_">> \o b \o <<"_", "_">>
ChainedTexts ==
    { p \o Chained(a, b) \o q : a \in ChainedNames, b \in ChainedNames,
                                p \in {<<>>, <<".">>}, q \in {<<>>, <<".">>} }

\* story.variables and self.state at the time of the call
InterpEnvs ==
    { [story_variables |-> EmptyMap, state |-> EmptyMap],
      [story_variables |-> (<<"x">> :> IntV(1)), state |-> EmptyMap],
      [story_variables |-> (<<"x">> :> IntV(1)) @@ (<<"y">> :> BoolV(TRUE)),
       state |-> (<<"x">> :> IntV(2))],
      [story_variables |-> (<<"x">> :> StrV(<<"_", "_", "y", "_", "_">>)) @@ (<<"y">> :> IntV(1)),
       state |-> EmptyMap],
      [story_variables |-> EmptyMap, state |-> (<<"y">> :> StrV(<<"x">>))] }

InitInterp ==
    /\ pc = "start"
    /\ itext \in TextsUpTo(MaxText) \cup ChainedTexts
    /\ ienv \in InterpEnvs
    /\ once = <<>>
    /\ twice = <<>>
    /\ IdleParse
    /\ IdleCond
    /\ IdlePlay
    /\ IdleEdit
    /\ IdleLine

\* self._interpolate(text)
InterpolateText ==
    /\ pc = "start"
    /\ once' = Interpolate(itext, ienv.story_variables, ienv.state)
    /\ pc' = "once"
    /\ UNCHANGED <<itext, ienv, twice, parseVars, condVars, playVars, editVars, lineVars>>

\* self._interpolate applied to its own output
InterpolateAgain ==
    /\ pc = "once"
    /\ twice' = Interpolate(once, ienv.story_variables, ienv.state)
    /\ pc' = "twice"
    /\ UNCHANGED <<itext, ienv, once, parseVars, condVars, playVars, editVars, lineVars>>

NextInterp == InterpolateText \/ InterpolateAgain

SpecInterp == InitInterp /\ [][NextInterp]_vars

\* ---- a text that is one __name__ token between underscore-free texts ----

Underscores(t) == {i \in 1..Len(t) : t[i] = "_"}

IsolatedToken(t) ==
    \E j, e \in 1..Len(t) :
        /\ Underscores(t) = {j, j + 1, e, e + 1}
        /\ e > j + 2
        /\ \A i \in (j + 2)..(e - 1) : t[i] \in AlnumAtoms

TokenName(t) ==
    LET j == SetMin(Underscores(t))
        e == SetMin(Underscores(t) \ {j, j + 1})
    IN  SubSeq(t, j + 2, e - 1)

TokenPrefix(t) == SubSeq(t, 1, SetMin(Underscores(t)) - 1)

TokenSuffix(t) == From(t, Len(TokenPrefix(t)) + Len(TokenName(t)) + 5)

\* C9: interpolating the output of _interpolate again, with the same
\* variables, returns that output unchanged
C9_Idempotent ==
    pc = "twice" => twice = once

\* C10: a __name__ token standing alone in the text is replaced by str(value)
\* when name is a defined variable, and is left exactly as written when it
\* is not
C10_TokenReplaced ==
    (pc \in {"once", "twice"} /\ IsolatedToken(itext)) =>
        once = IF TokenName(itext) \in DOMAIN Merge(ienv.story_variables, ienv.state)
               THEN TokenPrefix(itext)
                    \o PyStr(Merge(ienv.story_variables, ienv.state)[TokenName(itext)])
                    \o TokenSuffix(itext)
               ELSE itext

\* ".__y__" has been interpolated with y = True: the output is ".True"
C10_Witness ==
    /\ pc = "once"
    /\ itext = <<".", "_", "_", "y", "_", "_">>
    /\ <<"y">> \in DOMAIN ienv.story_variables
    /\ ienv.story_variables[<<"y">>] = BoolV(TRUE)
    /\ once = <<".", "True">>

\* ---- booleans, underscores without a name, undefined names ----

InterpVariables == Merge(ienv.story_variables, ienv.state)

\* C32: a placeholder whose variable holds a boolean is replaced by the
\* lowercase spelling true or false
C32_BooleanLowercase ==
    (/\ pc \in {"once", "twice"}
     /\ IsolatedToken(itext)
     /\ TokenName(itext) \in DOMAIN InterpVariables
     /\ InterpVariables[TokenName(itext)].t = "bool") =>
        once = TokenPrefix(itext)
               \o (IF InterpVariables[TokenName(itext)].n = 1 THEN <<"true">> ELSE <<"false">>)
               \o TokenSuffix(itext)

\* "__" at position j of s with no name right after it
BareUnderscores(s, j) ==
    /\ j + 1 <= Len(s)
    /\ s[j] = "_"
    /\ s[j + 1] = "_"
    /\ NameEnd(s, j + 2) = j + 2

C34_ClosingOpensNext ==
    \A a \in ChainedNames, b \in ChainedNames, p \in {<<>>, <<".">>}, q \in {<<>>, <<".">>} :
        (/\ pc \in {"once", "twice"}
         /\ itext = p \o Chained(a, b) \o q
         /\ a \notin DOMAIN InterpVariables
         /\ b \in DOMAIN InterpVariables) =>
            once = p \o <<"_", "_">> \o a \o PyStr(InterpVariables[b]) \o q

\* "__x__y__" has been interpolated with x undefined and y = 'x': "__xx"
C34_Witness ==
    /\ pc = "once"
    /\ itext = <<"_", "_", "x", "_", "_", "y", "_", "_">>
    /\ DOMAIN InterpVariables = {<<"y">>}
    /\ InterpVariables[<<"y">>] = StrV(<<"x">>)
    /\ once = <<"_", "_", "x", "x">>

\* A closed token at position j of s whose name is a defined variable
DefinedTokenAt(s, j, variables) ==
    /\ j + 1 <= Len(s)
    /\ s[j] = "_"
    /\ s[j + 1] = "_"
    /\ LET e == NameEnd(s, j + 2)
       IN  /\ e > j + 2
           /\ e + 1 <= Len(s)
           /\ s[e] = "_"
           /\ s[e + 1] = "_"
           /\ SubSeq(s, j + 2, e - 1) \in DOMAIN variables

\* C35: a text in which no __name__ token names a defined variable is
\* returned unchanged, and in every text each round of the loop that finds
\* "__" at j leaves the scan position after j
C35_UnchangedWithoutDefinedToken ==
    pc \in {"once", "twice"} =>
        /\ (\A j \in 1..Len(itext) : ~DefinedTokenAt(itext, j, InterpVariables)) => once = itext
        /\ \A j \in 1..Len(itext) :
               (j + 1 <= Len(itext) /\ itext[j] = "_" /\ itext[j + 1] = "_") =>
                   ScanToken(itext, j, NameEnd(itext, j + 2), InterpVariables).i > j

\* "__y__x" has been interpolated with only x defined and is unchanged
C35_Witness ==
    /\ pc = "once"
    /\ itext = <<"_", "_", "y", "_", "_", "x">>
    /\ DOMAIN InterpVariables = {<<"x">>}
    /\ once = itext

\* ------------------------------------------------------------------------
\* Conditions: _evaluate_condition(cond) against self.state
\* ------------------------------------------------------------------------

MaxCond == 4

\* The characters a condition string is made of
CondAtoms == {"x", "s", "0", "(", ")", "/", "<", "!", "="}

CondsUpTo(n) == UNION { [1..k -> CondAtoms] : k \in 0..n }

\* Two letters or digits in a row would spell a longer word
NoWordRun(c) == \A i \in 1..(Len(c) - 1) : ~(c[i] \in WordAtoms /\ c[i + 1] \in WordAtoms)

CondStates == { EmptyMap, (<<"x">> :> IntV(1)) @@ (<<"s">> :> StrV(<<"a">>)) }

\* Conditions written with the author-facing operators: !a, a != b, a & b,
\* a && b, a | b, a || b, a && !b, with and without blanks around the operator
Operands == {<<"hp">>, <<"dead">>, <<"0">>, <<"3">>}
Not1(g, a) == <<"!">> \o g \o a
Binary(a, g, op, b) == a \o g \o op \o g \o b
BinaryOps == {<<"!", "=">>, <<"&">>, <<"&", "&">>, <<"|">>, <<"|", "|">>}
OperatorExample == <<"hp", ">", "3", " ", "&", "&", " ", "!", "dead">>
OperatorConds ==
    {Not1(g, a) : g \in Gaps, a \in Operands}
    \cup {Binary(a, g, op, b) : a \in Operands, g \in Gaps, op \in BinaryOps, b \in Operands}
    \cup {Binary(a, g, <<"&", "&">>, Not1(<<>>, b)) : a \in Operands, g \in Gaps, b \in Operands}
    \cup {OperatorExample}

OperatorStates ==
    { (<<"hp">> :> IntV(5)) @@ (<<"dead">> :> BoolV(FALSE)),
      (<<"hp">> :> IntV(3)) @@ (<<"dead">> :> BoolV(TRUE)) }

\* Conditions whose one operand divides by x: "x == 0 || 10 / x > 1" and its
\* like, with the dividing operand on the right and on the left
XIsZero == <<"x", " ", "=", "=", " ", "0">>
XIsNotZero == <<"x", " ", "!", "=", " ", "0">>
Determining == {XIsZero, XIsNotZero, <<"x">>}
Dividing == <<"10", " ", "/", " ", "x", " ", ">", " ", "1">>
AndOps == {<<"&">>, <<"&", "&">>}
OrOps == {<<"|">>, <<"|", "|">>}
ShortCircuitExample == Binary(XIsZero, <<" ">>, <<"|", "|">>, Dividing)
ShortCircuitConds ==
    {Binary(a, <<" ">>, op, Dividing) : a \in Determining, op \in AndOps \cup OrOps}
    \cup {Binary(Dividing, <<" ">>, op, a) : a \in Determining, op \in AndOps \cup OrOps}
    \cup {Dividing}
ShortCircuitStates == { (<<"x">> :> IntV(0)), (<<"x">> :> IntV(2)), EmptyMap }

\* Conditions written like assignments
AssignTargets == {<<"x">>, <<"y">>}
AssignSymbols == {<<"=">>, <<"+=">>, <<"/=">>, <<":", "=">>}
AssignValues == {<<"1">>, <<"0">>, <<"x", " ", "+", " ", "1">>}
AssignConds ==
    {Binary(a, g, op, v) : a \in AssignTargets, g \in Gaps, op \in AssignSymbols,
                           v \in AssignValues}
    \cup {<<"(">> \o Binary(a, g, <<":", "=">>, v) \o <<")">> :
              a \in AssignTargets, g \in Gaps, v \in AssignValues}

InitCond ==
    /\ pc = "start"
    /\ \/ cond \in {c \in CondsUpTo(MaxCond) : NoWordRun(c)} /\ cstate \in CondStates
       \/ cond \in OperatorConds /\ cstate \in OperatorStates
       \/ cond \in ShortCircuitConds /\ cstate \in ShortCircuitStates
       \/ cond \in AssignConds /\ cstate \in ShortCircuitStates
    /\ result = Ret(NoneV)
    /\ IdleParse
    /\ IdleInterp
    /\ IdlePlay
    /\ IdleEdit
    /\ IdleLine

\* self._evaluate_condition(cond)
Evaluate ==
    /\ pc = "start"
    /\ result' = EvaluateCondition(cond, cstate)
    /\ cstate' = StateAfterCondition(cond, cstate)
    /\ pc' = "evaluated"
    /\ UNCHANGED <<cond, parseVars, interpVars, playVars, editVars, lineVars>>

NextCond == Evaluate

SpecCond == InitCond /\ [][NextCond]_vars

\* what the try block of _evaluate_condition did on this input
TryBlock == EvalParsed(AstParse(ToPythonExpr(cond)), cstate)

\* C2: _evaluate_condition raises nothing and returns a bool, which is False
\* whenever parsing or evaluating the rewritten condition failed
C2_ConditionNeverRaises ==
    pc = "evaluated" =>
        /\ result.exc = ""
        /\ result.v \in {BoolV(TRUE), BoolV(FALSE)}
        /\ TryBlock.exc # "" => result.v = BoolV(FALSE)

\* "x/0" has been evaluated with x = 1: the division raised inside the try
\* block and the call returned False
C2_Witness ==
    /\ pc = "evaluated"
    /\ cond = <<"x", "/", "0">>
    /\ cstate # EmptyMap
    /\ TryBlock.exc = "ZeroDivisionError"
    /\ result = Ret(BoolV(FALSE))

\* the value of an operand: a number, or a variable read from the state
OperandValue(a, state) ==
    IF a[1] \in IntAtoms THEN IntV(IntOf(a[1])) ELSE MapGet(state, a, IntV(0))

IsTrue(a, state) == OperandValue(a, state).n # 0

\* C16: the rewriter turns "!" into logical not unless "=" follows it, in
\* which case "!=" stays the inequality operator; "&" and "&&" both become
\* logical and, "|" and "||" both logical or; "hp>3 && !dead" is true in
\* {hp: 5, dead: false}
C16_OperatorRewrite ==
    pc = "evaluated" =>
        /\ \A g \in Gaps, a \in Operands, b \in Operands :
              /\ cond = Not1(g, a) => result = Ret(BoolV(~IsTrue(a, cstate)))
              /\ cond = Binary(a, g, <<"!", "=">>, b)
                    => result = Ret(BoolV(OperandValue(a, cstate).n # OperandValue(b, cstate).n))
              /\ cond \in {Binary(a, g, <<"&">>, b), Binary(a, g, <<"&", "&">>, b)}
                    => result = Ret(BoolV(IsTrue(a, cstate) /\ IsTrue(b, cstate)))
              /\ cond \in {Binary(a, g, <<"|">>, b), Binary(a, g, <<"|", "|">>, b)}
                    => result = Ret(BoolV(IsTrue(a, cstate) \/ IsTrue(b, cstate)))
              /\ cond = Binary(a, g, <<"&", "&">>, Not1(<<>>, b))
                    => result = Ret(BoolV(IsTrue(a, cstate) /\ ~IsTrue(b, cstate)))
        /\ (cond = OperatorExample /\ cstate[<<"hp">>] = IntV(5))
              => result = Ret(BoolV(TRUE))

\* "hp>3 && !dead" has been evaluated with hp = 5 and dead = false, to True
C16_Witness ==
    /\ pc = "evaluated"
    /\ cond = OperatorExample
    /\ cstate = (<<"hp">> :> IntV(5)) @@ (<<"dead">> :> BoolV(FALSE))
    /\ result = Ret(BoolV(TRUE))

\* whether a determining operand is true: x == 0, x != 0, x
Holds(a, state) ==
    IF a = XIsZero THEN MapGet(state, <<"x">>, IntV(0)).n = 0
    ELSE MapGet(state, <<"x">>, IntV(0)).n # 0

\* C28: and / or short-circuit: the right operand "10 / x > 1" is not
\* evaluated when the left operand is false under and, or true under or, so
\* the try block raises nothing although x is 0; it is evaluated otherwise,
\* and the left operand of and / or always is; "x == 0 || 10 / x > 1" is
\* true when x is 0
C28_ShortCircuit ==
    (pc = "evaluated" /\ MapGet(cstate, <<"x">>, IntV(0)) = IntV(0)) =>
        /\ cond = Dividing => TryBlock.exc = "ZeroDivisionError"
        /\ \A a \in Determining :
              /\ \A op \in OrOps :
                    /\ cond = Binary(a, <<" ">>, op, Dividing) =>
                          IF Holds(a, cstate) THEN TryBlock = Ret(BoolV(TRUE))
                          ELSE TryBlock.exc = "ZeroDivisionError"
                    /\ cond = Binary(Dividing, <<" ">>, op, a) =>
                          TryBlock.exc = "ZeroDivisionError"
              /\ \A op \in AndOps :
                    /\ cond = Binary(a, <<" ">>, op, Dividing) =>
                          IF ~Holds(a, cstate) THEN TryBlock = Ret(BoolV(FALSE))
                          ELSE TryBlock.exc = "ZeroDivisionError"
                    /\ cond = Binary(Dividing, <<" ">>, op, a) =>
                          TryBlock.exc = "ZeroDivisionError"
        /\ cond = ShortCircuitExample => result = Ret(BoolV(TRUE))

\* "x == 0 || 10 / x > 1" has been evaluated to True with x = 0, where
\* "10 / x > 1" alone raises
C28_Witness ==
    /\ pc = "evaluated"
    /\ cond = ShortCircuitExample
    /\ cstate = (<<"x">> :> IntV(0))
    /\ EvalParsed(AstParse(ToPythonExpr(Dividing)), cstate).exc = "ZeroDivisionError"
    /\ result = Ret(BoolV(TRUE))

\* C29: evaluating a condition never changes the variable state, whether the
\* evaluation succeeds or fails: no condition string reaches the assignment
\* cases of the evaluator
C29_ConditionKeepsState ==
    [][pc' = "evaluated" => cstate' = cstate]_vars

\* "(x := 1)" has been evaluated with x = 0: the named expression is no
\* supported node, the call returned False and x is still 0
C29_Witness ==
    /\ pc = "evaluated"
    /\ cond = <<"(", "x", " ", ":", "=", " ", "1", ")">>
    /\ TryBlock.exc = "ValueError"
    /\ result = Ret(BoolV(FALSE))
    /\ cstate = (<<"x">> :> IntV(0))

\* ------------------------------------------------------------------------
\* Playback: the constructor's reset, then choices, resets and chapter paging
\* ------------------------------------------------------------------------

MaxHistory == 6

\* A story that sets booleans and a string and applies every arithmetic
\* operation to a boolean or unset variable; its one branch leads to itself
BooleanStory ==
    << "!", " ", "v", " ", "=", " ", "true", "\n",
         "@chapter", " ", "c", "\n",
         "#", " ", "a", "\n",
         "!", " ", "w", " ", "=", " ", "true", "\n",
         "!", " ", "s", " ", "=", " ", "'", "a", "'", "\n",
         "!", " ", "v", " ", "+=", " ", "1", "\n",
         "!", " ", "n", " ", "+=", " ", "true", "\n",
         "!", " ", "u", " ", "-=", " ", "true", "\n",
         "!", " ", "x", " ", "=", " ", "true", "\n",
         "!", " ", "x", " ", "*=", " ", "3", "\n",
         "!", " ", "d", " ", "=", " ", "true", "\n",
         "!", " ", "d", " ", "/=", " ", "2", "\n",
         "!", " ", "y", " ", "=", " ", "true", "\n",
         "!", " ", "y", " ", "//=", " ", "true", "\n",
         "!", " ", "z", " ", "=", " ", "true", "\n",
         "!", " ", "z", " ", "%=", " ", "true", "\n",
         "!", " ", "b", " ", "=", " ", "true", "\n",
         "!", " ", "b", " ", "**=", " ", "true", "\n",
         "*", " ", "t", " ", "->", " ", "a" >>

\* The sources of the stories played
PlayTexts ==
    {
      BooleanStory,
      \* a loop over two chapters, a conditional choice, a missing target
      << "!", " ", "v", " ", "=", " ", "0", "\n",
         "@chapter", " ", "c", "\n",
         "#", " ", "a", "\n",
         "!", " ", "v", " ", "+=", " ", "1", "\n",
         "*", " ", "t", " ", "->", " ", "b", "\n",
         "*", " ", "[", "v", " ", ">", " ", "1", "]", " ", "u", " ", "->", " ", "a", "\n",
         "*", " ", "x", " ", "->", " ", "z", "\n",
         "@chapter", " ", "d", "\n",
         "#", " ", "b", "\n",
         "*", " ", "_", "_", "v", "_", "_", " ", "->", " ", "a", "\n",
         "*", " ", "t", " ", "->", " ", "b" >>,
      \* a division by zero in the second branch
      << "@chapter", " ", "c", "\n",
         "#", " ", "a", "\n",
         "!", " ", "v", " ", "=", " ", "1", "\n",
         "*", " ", "t", " ", "->", " ", "b", "\n",
         "#", " ", "b", "\n",
         "!", " ", "v", " ", "/=", " ", "0", "\n",
         "*", " ", "t", " ", "->", " ", "a" >>,
      \* an addition to a string variable in the start branch
      << "!", " ", "s", " ", "=", " ", "'", "a", "'", "\n",
         "@chapter", " ", "c", "\n",
         "#", " ", "a", "\n",
         "!", " ", "s", " ", "+=", " ", "1" >>,
      \* an unset variable in a condition, and a branch of a second chapter
      \* whose only choice has a false condition
      << "@chapter", " ", "c", "\n",
         "#", " ", "a", "\n",
         "*", " ", "[", "v", "]", " ", "t", " ", "->", " ", "b", "\n",
         "*", " ", "u", " ", "->", " ", "b", "\n",
         "@chapter", " ", "d", "\n",
         "#", " ", "b", "\n",
         "!", " ", "v", " ", "=", " ", "1", "\n",
         "*", " ", "[", "!", "v", "]", " ", "t", " ", "->", " ", "a" >>,
      \* a start id that names no branch
      << "@start:", " ", "z", "\n",
         "@chapter", " ", "c", "\n",
         "#", " ", "a" >>
    }

InitPlay ==
    /\ pc = "init"
    /\ \E t \in PlayTexts, show_disabled \in BOOLEAN :
           /\ Parse(t).ok
           /\ app = NewApp(Parse(t).story, show_disabled)
    /\ saved = <<>>
    /\ IdleParse
    /\ IdleInterp
    /\ IdleCond
    /\ IdleEdit
    /\ IdleLine

\* __init__ ends with the call of _reset_to_start; an exception leaves no window
Construct ==
    /\ pc = "init"
    /\ app' = ResetToStartFrom(app)
    /\ pc' = IF app'.raised # "" THEN "crashed" ELSE "playing"
    /\ UNCHANGED <<saved, parseVars, interpVars, condVars, editVars, lineVars>>

\* _confirm_reset answered with yes
ConfirmReset ==
    /\ pc = "playing"
    /\ app' = ResetToStartFrom(app)
    /\ UNCHANGED <<pc, saved, parseVars, interpVars, condVars, editVars, lineVars>>

\* A click on an enabled choice button; an exception raised by the callback
\* is reported and the window stays
Choose ==
    /\ pc = "playing"
    /\ Len(app.history) < MaxHistory
    /\ \E i \in 1..Len(app.choice_frame.buttons) :
           /\ ~app.choice_frame.buttons[i].disabled
           /\ app' = ChooseFrom(Entered(app), app.choice_frame.buttons[i].choice)
    /\ UNCHANGED <<pc, saved, parseVars, interpVars, condVars, editVars, lineVars>>

GoPrevChapter ==
    /\ pc = "playing"
    /\ app.chapter_page_index > 0
    /\ app' = GoToPage(Entered(app), app.chapter_page_index - 1)
    /\ UNCHANGED <<pc, saved, parseVars, interpVars, condVars, editVars, lineVars>>

GoNextChapter ==
    /\ pc = "playing"
    /\ app.chapter_page_index < Len(app.chapter_positions) - 1
    /\ app' = GoToPage(Entered(app), app.chapter_page_index + 1)
    /\ UNCHANGED <<pc, saved, parseVars, interpVars, condVars, editVars, lineVars>>

NextPlay == Construct \/ ConfirmReset \/ Choose \/ GoPrevChapter \/ GoNextChapter

SpecPlay == InitPlay /\ [][NextPlay]_vars

\* C3: replaying the actions of history[0..current_index] never raises, so no
\* playback step (the constructor's reset, a reset, a choice) ends with an
\* exception
C3_ReplayNeverRaises ==
    /\ app.raised = ""
    /\ ComputeState(app.story, app.history, app.current_index).exc = ""

\* the target ids the choice lines of a text name
ChoiceTargets(t) ==
    LET ls == DirectiveLines(t, <<"*", " ">>)
    IN  {ParseChoiceLine(ls[i]).choice.target_id : i \in 1..Len(ls)}

\* a choice line of the text names a branch the text does not declare
NamesMissingBranch(t) ==
    \E target \in ChoiceTargets(t) :
        \A i \in 1..Len(DeclaredBranchIds(t)) : DeclaredBranchIds(t)[i] # target

\* C13: a choice whose target_id names no branch is no structural error:
\* parse accepts the text, and choosing it during playback reports an error
\* and leaves history, current_index, chapter_positions and state as they were
C13_MissingTargetHarmless ==
    /\ [](\A t \in PlayTexts : NamesMissingBranch(t) => Parse(t).ok)
    /\ [][\A i \in 1..Len(app.choice_frame.buttons) :
              (/\ ~HasKey(app.story.branches, app.choice_frame.buttons[i].choice.target_id)
               /\ app' = ChooseFrom(Entered(app), app.choice_frame.buttons[i].choice))
              => /\ app'.message = "missing_target"
                 /\ app'.raised = ""
                 /\ app'.history = app.history
                 /\ app'.current_index = app.current_index
                 /\ app'.chapter_positions = app.chapter_positions
                 /\ app'.state = app.state]_vars

\* the choice "x -> z" of branch a has been clicked after a round through
\* branch b, and the error dialog is shown
C13_Witness ==
    /\ pc = "playing"
    /\ app.message = "missing_target"
    /\ Len(app.history) = 3
    /\ app.current_index = 2
    /\ \E i \in 1..Len(app.choice_frame.buttons) :
          ~HasKey(app.story.branches, app.choice_frame.buttons[i].choice.target_id)

\* the actions of the branches of the steps, in step order and action order
RECURSIVE ActionsAlong(_, _)
ActionsAlong(story, steps) ==
    IF steps = <<>> THEN <<>>
    ELSE StepActions(story, Head(steps)) \o ActionsAlong(story, Tail(steps))

\* a reset or a choice that ended without an error dialog and without an exception
Succeeded(a) == a.message = "" /\ a.raised = "" /\ a.history # <<>>

ResetOrChoice ==
    \/ app' = ResetToStartFrom(app)
    \/ \E i \in 1..Len(app.choice_frame.buttons) :
           app' = ChooseFrom(Entered(app), app.choice_frame.buttons[i].choice)

\* C21: after _reset_to_start and after every successful _choose the state
\* is story.variables with every action of the branches of
\* history[0..current_index] applied in history order and action order, and
\* playback never modifies story.variables
C21_StateIsReplay ==
    /\ [][app'.story.variables = app.story.variables]_vars
    /\ [][(ResetOrChoice /\ Succeeded(app'))
             => app'.state =
                    ApplyActions(Replayed(app'.story.variables),
                                 ActionsAlong(app'.story,
                                              SubSeq(app'.history, 1, app'.current_index + 1))).state]_vars

\* branch a has been entered twice and branch b once: v is 0 + 1 + 1
C21_Witness ==
    /\ pc = "playing"
    /\ Succeeded(app)
    /\ Len(app.history) = 3
    /\ app.current_index = 2
    /\ app.story.variables = (<<"v">> :> IntV(0))
    /\ app.state = (<<"v">> :> IntV(2))

\* the branch of history[current_index]
CurrentBranch(a) == a.story.heap[GetBranchRef(a.story, a.history[a.current_index + 1].branch_id)]

\* the condition of a choice evaluates to false against the state
ConditionFalse(choice, state) ==
    /\ choice.condition # None
    /\ choice.condition # <<>>
    /\ ~Truthy(EvaluateCondition(choice.condition, state).v)

\* the choice is offered as a button that can be clicked / that is disabled
Offered(a, choice, disabled) ==
    \E i \in 1..Len(a.choice_frame.buttons) :
        a.choice_frame.buttons[i] = [choice |-> choice, disabled |-> disabled]

ChoicesOf(br) == {br.choices[i] : i \in 1..Len(br.choices)}

\* what the claim says of the choice frame: a choice with a false condition
\* is no button that can be clicked, is no button at all when show_disabled
\* is off and is a disabled button when it is on, unless no choice can be
\* taken: then the ending text is shown and no button
ClaimedRendering(a) ==
    LET br == CurrentBranch(a)
        none == \A c \in ChoicesOf(br) : ConditionFalse(c, a.state)
    IN  /\ \A c \in ChoicesOf(br) :
               ConditionFalse(c, a.state) =>
                   /\ ~Offered(a, c, FALSE)
                   /\ ~a.show_disabled => ~Offered(a, c, TRUE)
                   /\ (a.show_disabled /\ ~none) => Offered(a, c, TRUE)
        /\ none => a.choice_frame = EndingLabel

\* what _render_choices leaves for the current branch: the claimed rendering,
\* and the other choices as buttons that can be clicked
ChoicesRendered(a) ==
    /\ ClaimedRendering(a)
    /\ \A c \in ChoicesOf(CurrentBranch(a)) :
           ~ConditionFalse(c, a.state) => (~a.choice_frame.ending /\ Offered(a, c, FALSE))

\* the current step is the last step of the history, at an existing branch
AtBranch(a) ==
    /\ a.history # <<>>
    /\ a.current_index = Len(a.history) - 1
    /\ GetBranchRef(a.story, a.history[a.current_index + 1].branch_id) # 0

C23_IndicesInRange ==
    (pc # "init" /\ app.history # <<>>) =>
        /\ app.current_index = Len(app.history) - 1
        /\ 0 <= app.chapter_page_index
        /\ app.chapter_page_index < Len(app.chapter_positions)

\* the first of three pages is displayed after paging back twice
C23_Witness ==
    /\ pc = "playing"
    /\ Len(app.history) >= 3
    /\ app.current_index = Len(app.history) - 1
    /\ Len(app.chapter_positions) = 3
    /\ app.chapter_page_index = 0

\* the chapter of the branch of history[i] (Python index); None without branch
ChapterOfStep(a, i) ==
    IF GetBranchRef(a.story, a.history[i + 1].branch_id) = 0 THEN None
    ELSE ChapterIdOf(a.story, GetBranchRef(a.story, a.history[i + 1].branch_id))

C31_SetKeepsType ==
    (pc = "playing" /\ app.story = Parse(BooleanStory).story /\ Succeeded(app)) =>
        LET k == app.current_index + 1
        IN  app.state =
                (<<"v">> :> IntV(1 + k)) @@ (<<"w">> :> BoolV(TRUE))
                @@ (<<"s">> :> StrV(<<"a">>)) @@ (<<"n">> :> IntV(k)) @@ (<<"u">> :> IntV(-k))
                @@ (<<"x">> :> IntV(3)) @@ (<<"d">> :> FloatV(1, 2)) @@ (<<"y">> :> IntV(1))
                @@ (<<"z">> :> IntV(0)) @@ (<<"b">> :> IntV(1))

\* the branch of BooleanStory has been visited twice
C31_Witness ==
    /\ pc = "playing"
    /\ app.story = Parse(BooleanStory).story
    /\ Succeeded(app)
    /\ app.current_index = 1
    /\ app.story.variables = (<<"v">> :> BoolV(TRUE))
    /\ app.state[<<"w">>] = BoolV(TRUE)
    /\ app.state[<<"v">>] = IntV(3)

\* ---- progress files: play by reset and choose, save, load ----

\* _save_progress with a path chosen: the file is written, or written over
SaveProgress ==
    /\ pc = "playing"
    /\ saved' = <<ProgressData(app)>>
    /\ UNCHANGED <<pc, app, parseVars, interpVars, condVars, editVars, lineVars>>

\* _load_progress with the saved file chosen
LoadProgress ==
    /\ pc = "playing"
    /\ saved # <<>>
    /\ app' = LoadProgressFrom(Entered(app), saved[1])
    /\ UNCHANGED <<pc, saved, parseVars, interpVars, condVars, editVars, lineVars>>

NextProgress == Construct \/ ConfirmReset \/ Choose \/ SaveProgress \/ LoadProgress

SpecProgress == InitPlay /\ [][NextProgress]_vars

\* C39: loading the progress saved from the present history, reached by reset
\* and choose, gives the history, current_index, chapter_positions and
\* visited_chapters held when it was saved
C39_ProgressRestored ==
    [][(/\ saved = <<ProgressData(app)>>
        /\ Succeeded(app)
        /\ app' = LoadProgressFrom(Entered(app), saved[1]))
       => /\ app'.history = app.history
          /\ app'.current_index = app.current_index
          /\ app'.chapter_positions = app.chapter_positions
          /\ app'.visited_chapters = app.visited_chapters]_vars

\* ------------------------------------------------------------------------
\* Editing: the editor window, its menu, lists, forms and buttons
\* ------------------------------------------------------------------------

\* The Branch objects a story may have created since it was made or opened
MaxObjects == 3

\* The files opened
EditTexts ==
    {
      \* a chapter whose first branch has the empty id
      << "@chapter", " ", "c", "\n",
         "#", " ", "a", "\n",
         "*", " ", "t", " ", "->", " ", "b", "\n",
         "@chapter", " ", "d", "\n",
         "#", "\n",
         "#", " ", "b" >>,
      \* a chapter without branches and a start id that names no branch
      << "@start:", " ", "z", "\n",
         "@chapter", " ", "c", "\n",
         "@chapter", " ", "d", "\n",
         "#", " ", "a", "\n",
         "#", " ", "b" >>,
      \* a branch outside of a chapter
      << "#", " ", "a" >>
    }

\* What is typed into the id entries and the title entries
TypedIds == {<<>>, <<"n">>}
TypedTitles == {<<"t">>}

InitEdit ==
    /\ pc = "editing"
    /\ ed = NewEditor
    /\ IdleParse
    /\ IdleInterp
    /\ IdleCond
    /\ IdlePlay
    /\ IdleLine

Edited(e) == ed' = e /\ UNCHANGED <<pc, parseVars, interpVars, condVars, playVars, lineVars>>

\* File > New
MenuNew == pc = "editing" /\ Edited(NewStory(ed))

\* File > Open with a file chosen
MenuOpen == pc = "editing" /\ \E t \in EditTexts : Edited(OpenFile(ed, EditorParse(t)))

\* A click on an entry of the chapter list
ClickChapter ==
    /\ pc = "editing"
    /\ \E idx \in 1..Len(ed.story.chapters) : Edited(OnSelectChapter(EditorEntered(ed), idx))

\* A click on an entry of the branch list, which shows the current chapter
ClickBranch ==
    /\ pc = "editing"
    /\ ed.current_chapter_id # None
    /\ HasKey(ed.story.chapters, ed.current_chapter_id)
    /\ \E idx \in 1..Len(ChapterAt(ed.story, ed.current_chapter_id).branches) :
           Edited(OnSelectBranch(EditorEntered(ed), idx))

\* Return or focus leaving the chapter id or chapter title entry
LeaveChapterEntry ==
    /\ pc = "editing"
    /\ \E new_id \in TypedIds, new_title \in TypedTitles :
           Edited(ApplyChapterIdTitle(EditorEntered(ed), new_id, new_title))

\* Return or focus leaving the branch id or branch title entry
LeaveBranchEntry ==
    /\ pc = "editing"
    /\ \E new_id \in TypedIds, new_title \in TypedTitles :
           Edited(ApplyBranchIdTitle(EditorEntered(ed), new_id, new_title))

ClickAddChapter ==
    /\ pc = "editing"
    /\ Len(ed.story.heap) < MaxObjects
    /\ Edited(AddChapter(EditorEntered(ed)))

ClickDeleteChapter == pc = "editing" /\ Edited(DeleteCurrentChapter(EditorEntered(ed)))

ClickMoveChapter ==
    pc = "editing" /\ \E delta \in {-1, 1} : Edited(ReorderChapter(EditorEntered(ed), delta))

ClickAddBranch ==
    /\ pc = "editing"
    /\ Len(ed.story.heap) < MaxObjects
    /\ Edited(AddBranch(EditorEntered(ed)))

ClickDeleteBranch == pc = "editing" /\ Edited(DeleteCurrentBranch(EditorEntered(ed)))

ClickMoveBranch ==
    pc = "editing" /\ \E delta \in {-1, 1} : Edited(ReorderBranch(EditorEntered(ed), delta))

NextEdit ==
    \/ MenuNew \/ MenuOpen \/ ClickChapter \/ ClickBranch
    \/ LeaveChapterEntry \/ LeaveBranchEntry
    \/ ClickAddChapter \/ ClickDeleteChapter \/ ClickMoveChapter
    \/ ClickAddBranch \/ ClickDeleteBranch \/ ClickMoveBranch

SpecEdit == InitEdit /\ [][NextEdit]_vars

\* the entries <<chapter position, entry position>> of the chapters' branch
\* maps that hold the Branch object ref
Holders(story, ref) ==
    {h \in (1..Len(story.chapters)) \X (1..Len(story.heap)) :
        /\ h[2] <= Len(story.chapters[h[1]].branches)
        /\ story.chapters[h[1]].branches[h[2]].ref = ref}

\* the Branch objects that story.branches or a chapter's branch map holds
HeldRefs(story) ==
    {story.branches[j].ref : j \in 1..Len(story.branches)}
    \cup {r \in 1..Len(story.heap) : Holders(story, r) # {}}

\* entries of story.branches that hold the Branch object ref
TopEntries(story, ref) == {j \in 1..Len(story.branches) : story.branches[j].ref = ref}

\* C6: every branch is held by exactly one chapter's branch map and by
\* story.branches, under the same key, which is its branch_id, and its
\* chapter_id is the id of the chapter that holds it -- after a parse (a file
\* opened) and after every editor operation
C6_BranchHeldByOneChapter ==
    \A r \in HeldRefs(ed.story) :
        /\ Cardinality(Holders(ed.story, r)) = 1
        /\ Cardinality(TopEntries(ed.story, r)) = 1
        /\ \A h \in Holders(ed.story, r), j \in TopEntries(ed.story, r) :
              /\ ed.story.chapters[h[1]].branches[h[2]].key = ed.story.branches[j].key
              /\ ed.story.branches[j].key = ed.story.heap[r].branch_id
              /\ ed.story.heap[r].chapter_id = ed.story.chapters[h[1]].chapter_id

\* the editor e is about to rename its current branch to the unused id new_id
RenamesBranch(e, new_id) ==
    /\ e.current_branch_id # None
    /\ new_id # <<>>
    /\ new_id # e.current_branch_id
    /\ HasKey(e.story.branches, e.current_branch_id)
    /\ ~HasKey(e.story.branches, new_id)

\* the target ids of the choices of the branches refs, and start_id, are in
\* story2 what renaming old to new makes of those in story1
TargetsFollow(story1, story2, refs, old, new) ==
    /\ \A r \in refs :
          /\ Len(story2.heap[r].choices) = Len(story1.heap[r].choices)
          /\ \A i \in 1..Len(story1.heap[r].choices) :
                story2.heap[r].choices[i].target_id =
                    IF story1.heap[r].choices[i].target_id = old THEN new
                    ELSE story1.heap[r].choices[i].target_id
    /\ story2.start_id = IF story1.start_id = old THEN new ELSE story1.start_id

\* C12: renaming a branch from id old to an unused id new changes every
\* Choice.target_id equal to old, in every branch of the story, to new, sets
\* story.start_id to new if it was old, and leaves the other target ids as
\* they were
C12_RenameRetargets ==
    [][\A new_id \in TypedIds, new_title \in TypedTitles :
          (/\ RenamesBranch(ed, new_id)
           /\ ed' = ApplyBranchIdTitle(EditorEntered(ed), new_id, new_title))
          => TargetsFollow(ed.story, ed'.story, HeldRefs(ed.story),
                           ed.current_branch_id, new_id)]_vars

\* C36: story.start_id is a key of story.branches after every operation of
\* the editor on a new story or on an opened story that has a branch (the
\* moves change neither start_id nor the keys)
C36_StartIdIsBranch == HasKey(ed.story.branches, ed.story.start_id)

\* ---- the editor on new stories only: no file is opened ----

NextNewStory ==
    \/ MenuNew \/ ClickChapter \/ ClickBranch
    \/ LeaveChapterEntry \/ LeaveBranchEntry
    \/ ClickAddChapter \/ ClickDeleteChapter \/ ClickMoveChapter
    \/ ClickAddBranch \/ ClickDeleteBranch \/ ClickMoveBranch

SpecNewStory == InitEdit /\ [][NextNewStory]_vars

\* the story, the current chapter and the current branch
Model(e) == <<e.story, e.current_chapter_id, e.current_branch_id>>

\* C37: from a new story on, the story has a chapter and every chapter has a
\* branch; deleting the only chapter, or the only branch of the current
\* chapter, is refused with a warning and leaves the model as it was
C37_NeverEmpty ==
    /\ [](/\ Len(ed.story.chapters) >= 1
          /\ \A i \in 1..Len(ed.story.chapters) : Len(ed.story.chapters[i].branches) >= 1)
    /\ [][(/\ Len(ed.story.chapters) = 1
           /\ ed' = DeleteCurrentChapter(EditorEntered(ed)))
          => (ed'.message = "at_least_one_chapter" /\ Model(ed') = Model(ed))]_vars
    /\ [][(/\ HasKey(ed.story.chapters, ed.current_chapter_id)
           /\ Len(ChapterAt(ed.story, ed.current_chapter_id).branches) = 1
           /\ ed' = DeleteCurrentBranch(EditorEntered(ed)))
          => (ed'.message = "at_least_one_branch" /\ Model(ed') = Model(ed))]_vars

\* Delete Chapter has just been refused on a story that was given a second
\* branch and then lost a chapter: one chapter with two branches is left
C37_Witness ==
    /\ pc = "editing"
    /\ ed.message = "at_least_one_chapter"
    /\ Len(ed.story.chapters) = 1
    /\ Len(ed.story.chapters[1].branches) = 2
    /\ Len(ed.story.heap) = 3

\* the editor e is about to rename its current chapter to the unused id new_id
RenamesChapter(e, new_id) ==
    /\ e.current_chapter_id # None
    /\ new_id # <<>>
    /\ new_id # e.current_chapter_id
    /\ HasKey(e.story.chapters, e.current_chapter_id)
    /\ ~HasKey(e.story.chapters, new_id)

\* C38: a renamed chapter keeps its position in story.chapters, and a renamed
\* branch keeps its position in its chapter's branch map and in
\* story.branches
C38_RenameKeepsOrder ==
    [][\A new_id \in TypedIds, new_title \in TypedTitles :
          /\ (/\ RenamesChapter(ed, new_id)
               /\ ed' = ApplyChapterIdTitle(EditorEntered(ed), new_id, new_title))
              => Keys(ed'.story.chapters) =
                    [i \in 1..Len(ed.story.chapters) |->
                        IF ed.story.chapters[i].key = ed.current_chapter_id THEN new_id
                        ELSE ed.story.chapters[i].key]
          /\ (/\ RenamesBranch(ed, new_id)
               /\ ed' = ApplyBranchIdTitle(EditorEntered(ed), new_id, new_title)
               /\ ed'.raised = "")
              => Keys(ed'.story.branches) =
                    [i \in 1..Len(ed.story.branches) |->
                        IF ed.story.branches[i].key = ed.current_branch_id THEN new_id
                        ELSE ed.story.branches[i].key]]_vars

====
